---- MODULE Spec2Model ----
(***************************************************************************)
(* Model of the markdown / diff structured-extraction code of RepoCloner:  *)
(*   src/report_parser.py    MigrationReportParser                         *)
(*   src/scripts/default.py  extract_description_and_diff,                 *)
(*                           generate_code_diffs, generate_report_streaming*)
(*                                                                         *)
(* A Python str is a sequence of one-character strings, so that strip,     *)
(* lower, startswith, split and the regular expressions of the source act  *)
(* on characters exactly as they do in the program.                        *)
(***************************************************************************)
EXTENDS Naturals, Integers, Sequences, FiniteSets, TLC

VARIABLES
    pc,             \* position of the driver that calls the function under study
    diff_content,   \* argument of _extract_key_changes_and_notes
    extraction,     \* its result (clean, key_changes, notes)
    reextraction,   \* result of a second call on extraction.clean
    raw,            \* argument of extract_description_and_diff
    split,          \* its result (description, diff_content)
    table_rows,     \* rows written below the separator of the inventory table
    markdown_content,   \* the report file: argument of parse_report
    report,         \* the MigrationReport it returns
    serialized,     \* what to_json_serializable returns for it
    state,          \* the RepoAnalysisState handed from node to node
    repo_files,     \* the files of the cloned repository that can be read
    rerendered,     \* the report file written from the parsed report
    parser,         \* the fields of one MigrationReportParser instance
    calls,          \* the calls of parse_report on it: position and locals
    main            \* the main program: arguments, locals, output, files written

extractorVars == <<diff_content, extraction, reextraction>>
splitterVars == <<raw, split>>
parserVars == <<table_rows, markdown_content, report, serialized>>
generatorVars == <<state, repo_files, rerendered>>
instanceVars == <<parser, calls>>
mainVars == <<main>>

vars == <<pc, extractorVars, splitterVars, parserVars, generatorVars,
          instanceVars, mainVars>>

(***************************************************************************)
(* Bounds                                                                  *)
(***************************************************************************)
MaxBodyLines == 4
MaxResponseLines == 5
MaxTableRows == 3
MaxFragments == 4
MaxInventory == 2
MaxDiffs == 2
MaxCalls == 2

(***************************************************************************)
(* str primitives                                                          *)
(***************************************************************************)
NL == "\n"

\* characters removed by str.strip() and matched by \s (those of the alphabet)
WS == {" ", "\n", "\t"}

\* characters matched by \w (those of the alphabet)
WordChars == {"a","b","c","d","e","f","g","h","i","j","k","l","m","n","o","p",
              "q","r","s","t","u","v","w","x","y","z",
              "A","B","C","D","E","F","G","H","I","J","K","L","M","N","O","P",
              "Q","R","S","T","U","V","W","X","Y","Z",
              "0","1","2","3","4","5","6","7","8","9","_"}

Uppers == <<"A","B","C","D","E","F","G","H","I","J","K","L","M","N","O","P",
            "Q","R","S","T","U","V","W","X","Y","Z">>
Lowers == <<"a","b","c","d","e","f","g","h","i","j","k","l","m","n","o","p",
            "q","r","s","t","u","v","w","x","y","z">>

SetMin(S) == CHOOSE x \in S : \A y \in S : x <= y
SetMax(S) == 0 - SetMin({0 - x : x \in S})

LowerChar(c) ==
    IF \E k \in 1..26 : Uppers[k] = c
    THEN Lowers[CHOOSE k \in 1..26 : Uppers[k] = c]
    ELSE c

\* str.lower()
Lower(s) == [k \in 1..Len(s) |-> LowerChar(s[k])]

\* str.strip()
Strip(s) ==
    LET idx == {k \in 1..Len(s) : s[k] \notin WS}
    IN  IF idx = {} THEN <<>> ELSE SubSeq(s, SetMin(idx), SetMax(idx))

\* s[n:]
Drop(s, n) == SubSeq(s, n + 1, Len(s))

\* s[:n]
Take(s, n) == SubSeq(s, 1, n)

\* p occurs in s at (1-based) position i
StartsAt(s, i, p) ==
    /\ i >= 1
    /\ i + Len(p) - 1 <= Len(s)
    /\ \A k \in 1..Len(p) : s[i + k - 1] = p[k]

\* str.startswith(p)
StartsWith(s, p) == StartsAt(s, 1, p)

\* first position >= from at which p occurs in s, 0 when there is none
Find(s, p, from) ==
    LET c == {i \in from..(Len(s) + 1 - Len(p)) : StartsAt(s, i, p)}
    IN  IF c = {} THEN 0 ELSE SetMin(c)

\* p in s
Contains(s, p) == \E i \in 1..(Len(s) + 1 - Len(p)) : StartsAt(s, i, p)

\* str.count(c) for a one-character c
Count(s, c) == Cardinality({k \in 1..Len(s) : s[k] = c})

\* the pieces of s[from:] between the positions pos of the separator
RECURSIVE SplitFrom(_, _, _)
SplitFrom(s, pos, from) ==
    IF pos = {} THEN <<SubSeq(s, from, Len(s))>>
    ELSE LET p == SetMin(pos)
         IN  <<SubSeq(s, from, p - 1)>> \o SplitFrom(s, pos \ {p}, p + 1)

\* str.split(c) for a one-character separator: count(c)+1 pieces
Split(s, c) == SplitFrom(s, {k \in 1..Len(s) : s[k] = c}, 1)

\* str.splitlines() on "\n": no piece for the end of a final newline
SplitLines(s) ==
    LET parts == Split(s, NL)
    IN  IF s = <<>> THEN <<>>
        ELSE IF parts[Len(parts)] = <<>> THEN Take(parts, Len(parts) - 1)
        ELSE parts

\* sep.join(parts)
RECURSIVE Join(_, _)
Join(parts, sep) ==
    IF parts = <<>> THEN <<>>
    ELSE IF Len(parts) = 1 THEN parts[1]
    ELSE parts[1] \o sep \o Join(Tail(parts), sep)

(***************************************************************************)
(* Literals of src/report_parser.py, _extract_key_changes_and_notes        *)
(***************************************************************************)
\* "key changes:"
KEY_CHANGES == <<"k","e","y"," ","c","h","a","n","g","e","s",":">>
\* "+ key changes:"
PLUS_KEY_CHANGES == <<"+"," ">> \o KEY_CHANGES
\* "note:"
NOTE == <<"n","o","t","e",":">>
\* "+ note:"
PLUS_NOTE == <<"+"," ">> \o NOTE
\* the tuple of line 203
DiffLinePrefixes ==
    { <<"+">>, <<"-">>, <<"@","@">>,
      <<"d","i","f","f"," ","-","-","g","i","t">>,
      <<"i","n","d","e","x"," ">>,
      <<"-","-","-"," ">>, <<"+","+","+"," ">> }

(***************************************************************************)
(* MigrationReportParser._extract_key_changes_and_notes                    *)
(***************************************************************************)
\* line 196: the stripped, lowered line is a "Key changes:" marker
IsKeyChangesLine(line) ==
    Lower(line) = KEY_CHANGES \/ Lower(line) = PLUS_KEY_CHANGES

\* lines 203-204: the inner loop stops on actual diff content
StopsAtDiffLine(next_line) ==
    /\ \E p \in DiffLinePrefixes : StartsWith(next_line, p)
    /\ ~StartsWith(Lower(Strip(next_line)), <<"+"," ">>)

\* line 207: the inner loop stops on a Note section
StopsAtNoteLine(next_line) ==
    \/ StartsWith(Lower(Strip(next_line)), NOTE)
    \/ StartsWith(Lower(Strip(next_line)), PLUS_NOTE)

\* line 211 without the removal of the `+` prefix
CleanKeyChange_KeepsPlus(next_line) == Strip(next_line)

\* line 211
CleanKeyChange(next_line) ==
    IF StartsWith(next_line, <<"+">>) THEN Strip(Drop(next_line, 1))
    ELSE Strip(next_line)

\* lines 200-214: the inner while loop, from index i (1-based)
RECURSIVE CollectKeyChanges(_, _, _)
CollectKeyChanges(lines, i, key_changes) ==
    IF i > Len(lines) THEN [i |-> i, key_changes |-> key_changes]
    ELSE IF StopsAtDiffLine(lines[i]) THEN [i |-> i, key_changes |-> key_changes]
    ELSE IF StopsAtNoteLine(lines[i]) THEN [i |-> i, key_changes |-> key_changes]
    ELSE CollectKeyChanges(lines, i + 1,
            IF Strip(lines[i]) # <<>> /\ CleanKeyChange(lines[i]) # <<>>
            THEN Append(key_changes, CleanKeyChange(lines[i]))
            ELSE key_changes)

\* line 218: the stripped line is a "Note:" marker
IsNoteLine(line) ==
    StartsWith(Lower(line), NOTE) \/ StartsWith(Lower(line), PLUS_NOTE)

\* lines 220-224
NoteText(line) ==
    IF StartsWith(Lower(line), PLUS_NOTE) THEN Strip(Drop(line, 7))
    ELSE IF StartsWith(Lower(line), NOTE) THEN Strip(Drop(line, 5))
    ELSE line

\* lines 192-235 without the `continue` of line 215: the line on which the
\* inner loop stopped falls through to line 234 and is kept unexamined
RECURSIVE ExtractLoop_NoContinue(_, _, _, _, _)
ExtractLoop_NoContinue(lines, i, clean_lines, key_changes, notes) ==
    IF i > Len(lines)
    THEN [clean |-> Join(clean_lines, <<NL>>),
          key_changes |-> key_changes, notes |-> notes]
    ELSE LET line == Strip(lines[i]) IN
         IF IsKeyChangesLine(line)
         THEN LET r == CollectKeyChanges(lines, i + 1, key_changes)
              IN  ExtractLoop_NoContinue(lines, r.i + 1,
                      IF r.i <= Len(lines) THEN Append(clean_lines, lines[r.i])
                      ELSE clean_lines,
                      r.key_changes, notes)
         ELSE IF IsNoteLine(line)
         THEN ExtractLoop_NoContinue(lines, i + 1, clean_lines, key_changes,
                  IF NoteText(line) # <<>> THEN Append(notes, NoteText(line))
                  ELSE notes)
         ELSE ExtractLoop_NoContinue(lines, i + 1, Append(clean_lines, lines[i]),
                  key_changes, notes)

\* lines 192-235: the outer while loop, from index i (1-based)
RECURSIVE ExtractLoop(_, _, _, _, _)
ExtractLoop(lines, i, clean_lines, key_changes, notes) ==
    IF i > Len(lines)
    THEN [clean |-> Join(clean_lines, <<NL>>),
          key_changes |-> key_changes, notes |-> notes]
    ELSE LET line == Strip(lines[i]) IN
         IF IsKeyChangesLine(line)
         THEN LET r == CollectKeyChanges(lines, i + 1, key_changes)
              IN  ExtractLoop(lines, r.i, clean_lines, r.key_changes, notes)
         ELSE IF IsNoteLine(line)
         THEN ExtractLoop(lines, i + 1, clean_lines, key_changes,
                  IF NoteText(line) # <<>> THEN Append(notes, NoteText(line))
                  ELSE notes)
         ELSE ExtractLoop(lines, i + 1, Append(clean_lines, lines[i]),
                  key_changes, notes)

_extract_key_changes_and_notes(content) ==
    ExtractLoop(Split(content, NL), 1, <<>>, <<>>, <<>>)

(***************************************************************************)
(* Diff bodies handed to the extractor                                     *)
(***************************************************************************)
\* "+ Key changes:"
L_PlusKeyChanges == <<"+"," ","K","e","y"," ","c","h","a","n","g","e","s",":">>
\* "+ ab"   a `+ <text>` annotation line
L_PlusText == <<"+"," ","a","b">>
\* "- ab"   a `-` bullet
L_DashBullet == <<"-"," ","a","b">>
\* "* ab"   a `*` bullet
L_StarBullet == <<"*"," ","a","b">>
\* "+ab"    an added line of the diff
L_Added == <<"+","a","b">>
\* "+ Note: cd"
L_PlusNote == <<"+"," ","N","o","t","e",":"," ","c","d">>
\* "Note: ef"
L_Note == <<"N","o","t","e",":"," ","e","f">>
\* "Notes: gh"
L_Notes == <<"N","o","t","e","s",":"," ","g","h">>
\* "+ xy"   a second `+ <text>` annotation line
L_PlusText2 == <<"+"," ","x","y">>
\* ""       a blank line
L_Blank == <<>>

BodyLinePool ==
    { L_PlusKeyChanges, L_PlusText, L_PlusText2, L_DashBullet, L_StarBullet,
      L_Added, L_PlusNote, L_Note, L_Notes, L_Blank }

BodyLineSeqs == UNION {[1..n -> BodyLinePool] : n \in 0..MaxBodyLines}

DiffBodies == {Join(ls, <<NL>>) : ls \in BodyLineSeqs}

(***************************************************************************)
(* Literals of src/scripts/default.py, extract_description_and_diff        *)
(***************************************************************************)
\* the backquote character
BQ == "U+0060"
\* "```"
FENCE == <<BQ, BQ, BQ>>
\* "\n```"
NL_FENCE == <<NL>> \o FENCE
\* "diff --git"
DIFF_GIT == <<"d","i","f","f"," ","-","-","g","i","t">>
\* "index"
INDEX == <<"i","n","d","e","x">>
\* "---"
DASHES == <<"-","-","-">>
\* "+++"
PLUSES == <<"+","+","+">>
\* "@@"
ATAT == <<"@","@">>
\* "diff"
LANG_DIFF == <<"d","i","f","f">>
\* "patch"
LANG_PATCH == <<"p","a","t","c","h">>

(***************************************************************************)
(* extract_description_and_diff                                            *)
(***************************************************************************)
\* first position >= from whose character is not in the class, Len(s)+1 when
\* the run reaches the end: the end of a greedy \w+ or \s* started at from
RunEnd(s, from, class) ==
    LET c == {i \in from..Len(s) : s[i] \notin class}
    IN  IF c = {} THEN Len(s) + 1 ELSE SetMin(c)

\* line 262: the positions of the "\n" that the regular expression
\* ```(\w+)?\s*\n([\s\S]*?)\n``` can take after an opening ``` at p, i.e. the
\* newlines of the white space that follows the language tag which have a
\* closing "\n```" somewhere behind them
FenceNewlines(s, p) ==
    LET wEnd == RunEnd(s, p + 3, WordChars)
        rEnd == RunEnd(s, wEnd, WS)
    IN  {n \in wEnd..(rEnd - 1) : s[n] = NL /\ Find(s, NL_FENCE, n + 1) # 0}

\* line 262: the regular expression matches at p
FenceMatchesAt(s, p) == StartsAt(s, p, FENCE) /\ FenceNewlines(s, p) # {}

\* line 262: the match at p; \s* is greedy, so the last possible "\n" is
\* taken, and the content is lazy, so it ends at the first "\n```"
FenceMatch(s, p) ==
    LET wEnd  == RunEnd(s, p + 3, WordChars)
        n     == SetMax(FenceNewlines(s, p))
        close == Find(s, NL_FENCE, n + 1)
    IN  [start    |-> p,
         end      |-> close + 4,
         language |-> SubSeq(s, p + 3, wEnd - 1),
         content  |-> SubSeq(s, n + 1, close - 1)]

\* line 262: re.finditer, the non-overlapping matches from position from on
RECURSIVE FencedBlocks(_, _)
FencedBlocks(s, from) ==
    LET c == {p \in from..Len(s) : FenceMatchesAt(s, p)}
    IN  IF c = {} THEN <<>>
        ELSE <<FenceMatch(s, SetMin(c))>>
                 \o FencedBlocks(s, FenceMatch(s, SetMin(c)).end)

\* position i of s is the start of a line (^ under re.M)
LineStart(s, i) == i = 1 \/ (i > 1 /\ i <= Len(s) /\ s[i - 1] = NL)

\* line 271: re.search(r"^(diff --git|---\s|\+\+\+\s|@@)", content, re.M)
HasDiffMarker(content) ==
    \E i \in 1..Len(content) :
        /\ LineStart(content, i)
        /\ \/ StartsAt(content, i, DIFF_GIT)
           \/ StartsAt(content, i, DASHES) /\ i + 3 <= Len(content)
                  /\ content[i + 3] \in WS
           \/ StartsAt(content, i, PLUSES) /\ i + 3 <= Len(content)
                  /\ content[i + 3] \in WS
           \/ StartsAt(content, i, ATAT)

\* lines 270-271: the block is a diff block by language or by content
IsDiffBlock(language, content) ==
    \/ Lower(language) \in {LANG_DIFF, LANG_PATCH}
    \/ HasDiffMarker(content)

\* line 282: re.match(r"^(diff --git|index\s|---\s[^\-]|\+\+\+\s[^\+]|@@\s)", line)
IsDiffStartInBlock(line) ==
    \/ StartsWith(line, DIFF_GIT)
    \/ StartsWith(line, INDEX) /\ Len(line) >= 6 /\ line[6] \in WS
    \/ StartsWith(line, DASHES) /\ Len(line) >= 5 /\ line[4] \in WS /\ line[5] # "-"
    \/ StartsWith(line, PLUSES) /\ Len(line) >= 5 /\ line[4] \in WS /\ line[5] # "+"
    \/ StartsWith(line, ATAT) /\ Len(line) >= 3 /\ line[3] \in WS

\* line 304: re.match(r"^(diff --git|index\s|---\s[^\-]|\+\+\+\s[^\+])", line)
IsDiffHeader(line) ==
    \/ StartsWith(line, DIFF_GIT)
    \/ StartsWith(line, INDEX) /\ Len(line) >= 6 /\ line[6] \in WS
    \/ StartsWith(line, DASHES) /\ Len(line) >= 5 /\ line[4] \in WS /\ line[5] # "-"
    \/ StartsWith(line, PLUSES) /\ Len(line) >= 5 /\ line[4] \in WS /\ line[5] # "+"

\* line 308: re.match(r"^@@\s", line)
IsHunkHeader(line) ==
    StartsWith(line, ATAT) /\ Len(line) >= 3 /\ line[3] \in WS

\* the first of the (1-based) indices found by a scan, 0 for None
FirstIndex(found) == IF found = {} THEN 0 ELSE SetMin(found)

\* lines 273-296 without the scan of lines 277-293: the whole content of the
\* fence is returned as the diff
SplitInFence_NoInnerScan(s, match) ==
    [description  |-> Strip(Take(s, match.start - 1)),
     diff_content |-> Strip(match.content)]

\* lines 273-296: the split for the chosen fenced block
SplitInFence(s, match) ==
    LET content             == Strip(match.content)
        description_before  == Strip(Take(s, match.start - 1))
        content_lines       == SplitLines(content)
        diff_start_in_block ==
            FirstIndex({i \in 1..Len(content_lines) :
                           IsDiffStartInBlock(content_lines[i])})
        description_inside  ==
            Strip(Join(Take(content_lines, diff_start_in_block - 1), <<NL>>))
        clean_diff          ==
            Strip(Join(Drop(content_lines, diff_start_in_block - 1), <<NL>>))
    IN  IF diff_start_in_block > 1
        THEN [description  |->
                 IF description_before # <<>>
                 THEN Strip(description_before \o <<NL>> \o description_inside)
                 ELSE description_inside,
              diff_content |-> clean_diff]
        ELSE [description |-> description_before, diff_content |-> content]

\* lines 298-319: no suitable fenced block, split at the first diff marker line
SplitAtMarker(s) ==
    LET lines      == SplitLines(s)
        diff_start ==
            FirstIndex({i \in 1..Len(lines) :
                           IsDiffHeader(lines[i]) \/ IsHunkHeader(lines[i])})
    IN  IF diff_start # 0
        THEN [description  |-> Strip(Join(Take(lines, diff_start - 1), <<NL>>)),
              diff_content |-> Strip(Join(Drop(lines, diff_start - 1), <<NL>>))]
        ELSE [description |-> s, diff_content |-> <<>>]

extract_description_and_diff(text) ==
    LET s             == Strip(text)
        fenced_blocks == FencedBlocks(s, 1)
        diff_blocks   == {k \in 1..Len(fenced_blocks) :
                             IsDiffBlock(fenced_blocks[k].language,
                                         Strip(fenced_blocks[k].content))}
    IN  IF diff_blocks # {}
        THEN SplitInFence(s, fenced_blocks[SetMin(diff_blocks)])
        ELSE SplitAtMarker(s)

(***************************************************************************)
(* Literals of src/report_parser.py, the parsers of a report               *)
(***************************************************************************)
\* "# "
H1 == <<"#"," ">>
\* "## "
H2 == <<"#","#"," ">>
\* "### "
H3 == <<"#","#","#"," ">>
\* "\n## "
NL_H2 == <<NL>> \o H2
\* "\n# "
NL_H1 == <<NL>> \o H1
\* "Unknown Report"
UNKNOWN_REPORT == <<"U","n","k","n","o","w","n"," ","R","e","p","o","r","t">>
\* "## 1. Kafka Usage Inventory"
INVENTORY_HEADING == <<"#","#"," ","1","."," ","K","a","f","k","a"," ","U","s","a","g","e"," ","I","n","v","e","n","t","o","r","y">>
\* "2. "
TWO_DOT == <<"2","."," ">>
\* "Code Migration Diffs"
DIFFS_HEADING == <<"C","o","d","e"," ","M","i","g","r","a","t","i","o","n"," ","D","i","f","f","s">>
\* "```diff\n"
FENCE_DIFF_NL == FENCE \o LANG_DIFF \o <<NL>>
\* "inventory"
INVENTORY == <<"i","n","v","e","n","t","o","r","y">>
\* "|"
PIPE == "|"

(***************************************************************************)
(* MigrationReportParser                                                   *)
(***************************************************************************)
\* lines 59-64 with the loop running to the end: the last heading wins
_extract_title_Last(lines) ==
    LET c == {i \in 1..Len(lines) : StartsWith(lines[i], H1)}
    IN  IF c = {} THEN UNKNOWN_REPORT ELSE Strip(Drop(lines[SetMax(c)], 2))

\* lines 59-64
_extract_title(lines) ==
    LET c == {i \in 1..Len(lines) : StartsWith(lines[i], H1)}
    IN  IF c = {} THEN UNKNOWN_REPORT ELSE Strip(Drop(lines[SetMin(c)], 2))

\* (.*?)(?=\n## |\n# |\Z) from position g: the position at which the lazy
\* group stops, i.e. the first one followed by "\n## " or "\n# ", else the end
SectionEnd(content, g) ==
    LET c == {x \in g..Len(content) :
                 StartsAt(content, x, NL_H2) \/ StartsAt(content, x, NL_H1)}
    IN  IF c = {} THEN Len(content) + 1 ELSE SetMin(c)

\* line 73: the positions of "\n\n" that \s*\n\n can take behind a heading
\* that ends before position e
BlankLineBreaks(content, e) ==
    {q \in e..(RunEnd(content, e, WS) - 2) :
        content[q] = NL /\ content[q + 1] = NL}

\* lines 73-79: re.search of the inventory pattern; \s* is greedy, so group 1
\* starts behind the last "\n\n" of the white space that follows the heading
InventoryMatch(content) ==
    LET c == {p \in 1..Len(content) :
                 /\ StartsAt(content, p, INVENTORY_HEADING)
                 /\ BlankLineBreaks(content, p + Len(INVENTORY_HEADING)) # {}}
    IN  IF c = {} THEN [found |-> FALSE, group1 |-> <<>>]
        ELSE LET g == SetMax(BlankLineBreaks(content,
                          SetMin(c) + Len(INVENTORY_HEADING))) + 2
             IN  [found  |-> TRUE,
                  group1 |-> SubSeq(content, g, SectionEnd(content, g) - 1)]

\* line 92: [col.strip() for col in line.split('|')[1:-1]]
Columns(line) ==
    LET parts == Split(line, PIPE)
    IN  [k \in 1..(Len(parts) - 2) |-> Strip(parts[k + 1])]

\* line 87: the test for the separator row
IsSeparatorRow(line) == StartsWith(line, <<PIPE>>) /\ Contains(line, DASHES)

\* line 90: the test for a data row
IsDataRow(line, in_table) ==
    StartsWith(line, <<PIPE>>) /\ in_table /\ Count(line, PIPE) >= 4

\* lines 93-98
RowItems(columns) ==
    IF Len(columns) >= 3
    THEN << [file |-> columns[1], apis_used |-> columns[2],
             summary |-> columns[3]] >>
    ELSE <<>>

\* lines 85-100: the loop over the lines of the section, from index i
RECURSIVE ParseTableLines(_, _, _, _)
ParseTableLines(lines, i, in_table, inventory) ==
    IF i > Len(lines) THEN inventory
    ELSE LET line == Strip(lines[i]) IN
         IF IsSeparatorRow(line)
         THEN ParseTableLines(lines, i + 1, TRUE, inventory)
         ELSE IF IsDataRow(line, in_table)
         THEN ParseTableLines(lines, i + 1, in_table,
                  inventory \o RowItems(Columns(line)))
         ELSE IF ~StartsWith(line, <<PIPE>>) /\ in_table
         THEN inventory
         ELSE ParseTableLines(lines, i + 1, in_table, inventory)

\* a value returned by a method, or the exception it raised
Return(v) == [raised |-> FALSE, value |-> v]
Raise == [raised |-> TRUE, value |-> <<>>]

\* lines 66-102 without the test of line 76: match.group(1) on None raises
_parse_kafka_inventory_NoMatchTest(content) ==
    LET match == InventoryMatch(content) IN
    IF ~match.found THEN Raise
    ELSE Return(ParseTableLines(Split(match.group1, NL), 1, FALSE, <<>>))

\* lines 66-102
_parse_kafka_inventory(content) ==
    LET match == InventoryMatch(content) IN
    IF ~match.found THEN Return(<<>>)
    ELSE Return(ParseTableLines(Split(match.group1, NL), 1, FALSE, <<>>))

\* line 111: the positions of the "\n" that \s*\n can take behind a heading
\* that ends before position e
LineBreaks(content, e) ==
    {q \in e..(RunEnd(content, e, WS) - 1) : content[q] = NL}

\* line 111: position behind "## (?:2\. )?Code Migration Diffs" at p, 0 when
\* the heading does not occur at p
DiffsHeadingEnd(content, p) ==
    IF StartsAt(content, p, H2 \o TWO_DOT \o DIFFS_HEADING)
    THEN p + Len(H2 \o TWO_DOT \o DIFFS_HEADING)
    ELSE IF StartsAt(content, p, H2 \o DIFFS_HEADING)
    THEN p + Len(H2 \o DIFFS_HEADING)
    ELSE 0

\* lines 111-117: re.search of the diffs pattern
DiffsMatch(content) ==
    LET c == {p \in 1..Len(content) :
                 /\ DiffsHeadingEnd(content, p) # 0
                 /\ LineBreaks(content, DiffsHeadingEnd(content, p)) # {}}
    IN  IF c = {} THEN [found |-> FALSE, group1 |-> <<>>]
        ELSE LET g == SetMax(LineBreaks(content,
                          DiffsHeadingEnd(content, SetMin(c)))) + 1
             IN  [found  |-> TRUE,
                  group1 |-> SubSeq(content, g, SectionEnd(content, g) - 1)]

\* line 121: ### ([^\n]+)\n(.*?)```diff\n(.*?)\n``` matches at p
FileMatchesAt(section, p) ==
    /\ StartsAt(section, p, H3)
    /\ Find(section, <<NL>>, p + 4) > p + 4
    /\ Find(section, FENCE_DIFF_NL, Find(section, <<NL>>, p + 4) + 1) # 0
    /\ Find(section, NL_FENCE,
            Find(section, FENCE_DIFF_NL, Find(section, <<NL>>, p + 4) + 1)
                + Len(FENCE_DIFF_NL)) # 0

\* line 121: the match at p; both (.*?) are lazy, so the first "```diff\n"
\* behind the heading line and the first "\n```" behind it are taken
FileMatch(section, p) ==
    LET eol   == Find(section, <<NL>>, p + 4)
        open  == Find(section, FENCE_DIFF_NL, eol + 1)
        body  == open + Len(FENCE_DIFF_NL)
        close == Find(section, NL_FENCE, body)
    IN  [end    |-> close + 4,
         group1 |-> SubSeq(section, p + 4, eol - 1),
         group2 |-> SubSeq(section, eol + 1, open - 1),
         group3 |-> SubSeq(section, body, close - 1)]

\* lines 125-142: the CodeDiff built from one match
CodeDiffOf(file_match) ==
    LET description_part == Strip(file_match.group2)
        extracted == _extract_key_changes_and_notes(Strip(file_match.group3))
    IN  [file         |-> Strip(file_match.group1),
         diff_content |-> extracted.clean,
         language     |-> LANG_DIFF,
         description  |-> IF description_part # <<>>
                             /\ ~StartsWith(description_part, FENCE)
                          THEN description_part ELSE <<>>,
         key_changes  |-> extracted.key_changes,
         notes        |-> extracted.notes]

\* lines 122-142: re.finditer over the section, from position from on
RECURSIVE FileDiffs(_, _)
FileDiffs(section, from) ==
    LET c == {p \in from..Len(section) : FileMatchesAt(section, p)}
    IN  IF c = {} THEN <<>>
        ELSE LET file_match == FileMatch(section, SetMin(c))
             IN  <<CodeDiffOf(file_match)>> \o FileDiffs(section, file_match.end)

\* lines 104-144
_parse_code_diffs(content) ==
    LET match == DiffsMatch(content) IN
    IF ~match.found THEN Return(<<>>)
    ELSE Return(FileDiffs(match.group1, 1))

\* line 153: the end of the greedy [^#\n]+ started at from, i.e. the first
\* position whose character is "#" or "\n", Len(content)+1 without one
HeadingTextEnd(content, from) ==
    LET c == {i \in from..Len(content) : content[i] \in {"#", NL}}
    IN  IF c = {} THEN Len(content) + 1 ELSE SetMin(c)

\* line 153: ## ([^#\n]+)\n(.*?)(?=\n## |\n# |\Z) matches at p: the heading
\* text runs up to the end of its line without a "#"
SectionMatchesAt(content, p) ==
    /\ StartsAt(content, p, H2)
    /\ HeadingTextEnd(content, p + 3) > p + 3
    /\ HeadingTextEnd(content, p + 3) <= Len(content)
    /\ content[HeadingTextEnd(content, p + 3)] = NL

\* line 153: the match at p
SectionMatch(content, p) ==
    LET eol == HeadingTextEnd(content, p + 3)
    IN  [end    |-> SectionEnd(content, eol + 1),
         group1 |-> SubSeq(content, p + 3, eol - 1),
         group2 |-> SubSeq(content, eol + 1, SectionEnd(content, eol + 1) - 1)]

\* line 154: re.finditer over the content, from position from on
RECURSIVE SectionMatches(_, _)
SectionMatches(content, from) ==
    LET c == {p \in from..Len(content) : SectionMatchesAt(content, p)}
    IN  IF c = {} THEN <<>>
        ELSE LET match == SectionMatch(content, SetMin(c))
             IN  <<match>> \o SectionMatches(content, match.end)

\* lines 157-177: the payload of one section
SectionPayload(content, match) ==
    LET header == Strip(match.group1) IN
    IF Contains(Lower(header), INVENTORY)
    THEN [type |-> "table", content |-> Strip(match.group2),
          parsed_data |-> _parse_kafka_inventory(content).value]
    ELSE IF Contains(Lower(header), LANG_DIFF)
    THEN [type |-> "code_diffs", content |-> Strip(match.group2),
          parsed_data |-> _parse_code_diffs(content).value]
    ELSE [type |-> "text", content |-> Strip(match.group2)]

\* lines 146-179: the dict keeps, for each header, the payload stored last
_parse_all_sections(content) ==
    LET matches == SectionMatches(content, 1)
        headers == {Strip(matches[k].group1) : k \in 1..Len(matches)}
        last(h) == SetMax({k \in 1..Len(matches) : Strip(matches[k].group1) = h})
    IN  Return([h \in headers |-> SectionPayload(content, matches[last(h)])])

\* lines 38-57
parse_report(content) ==
    LET kafka_inventory == _parse_kafka_inventory(content)
        code_diffs      == _parse_code_diffs(content)
        sections        == _parse_all_sections(content)
    IN  [raised          |-> kafka_inventory.raised \/ code_diffs.raised
                                 \/ sections.raised,
         title           |-> _extract_title(Split(content, NL)),
         kafka_inventory |-> kafka_inventory.value,
         code_diffs      |-> code_diffs.value,
         sections        |-> sections.value]

\* an instance of one of the dataclasses of lines 11-25
Instance(class, fields) == [class |-> class, fields |-> fields]

\* lines 163-165 and 169-171: the parsed_data of a section is the list that
\* the parser returned, a list of KafkaUsageItem or CodeDiff instances
SectionAsStored(payload) ==
    IF payload.type = "table"
    THEN [payload EXCEPT !.parsed_data =
             [k \in 1..Len(@) |-> Instance("KafkaUsageItem", @[k])]]
    ELSE IF payload.type = "code_diffs"
    THEN [payload EXCEPT !.parsed_data =
             [k \in 1..Len(@) |-> Instance("CodeDiff", @[k])]]
    ELSE payload

\* lines 239-268: the dicts of the two lists are built field by field, the
\* sections are handed on as they are stored in the report
to_json_serializable(report_) ==
    [title           |-> report_.title,
     kafka_inventory |->
         [k \in 1..Len(report_.kafka_inventory) |->
             [file      |-> report_.kafka_inventory[k].file,
              apis_used |-> report_.kafka_inventory[k].apis_used,
              summary   |-> report_.kafka_inventory[k].summary]],
     code_diffs      |->
         [k \in 1..Len(report_.code_diffs) |->
             [file         |-> report_.code_diffs[k].file,
              diff_content |-> report_.code_diffs[k].diff_content,
              language     |-> report_.code_diffs[k].language,
              description  |-> report_.code_diffs[k].description]],
     sections        |->
         [h \in DOMAIN report_.sections |-> SectionAsStored(report_.sections[h])],
     stats           |->
         [total_files_with_kafka |-> Len(report_.kafka_inventory),
          total_files_with_diffs |-> Len(report_.code_diffs),
          sections_count         |-> Cardinality(DOMAIN report_.sections)]]

(***************************************************************************)
(* Responses handed to the splitter                                        *)
(***************************************************************************)
\* "ab"       prose
R_Prose == <<"a","b">>
\* "cd"       prose
R_Prose2 == <<"c","d">>
\* "```diff"  a fence delimiter tagged diff
R_FenceDiff == FENCE \o LANG_DIFF
\* "```"      a fence delimiter without tag
R_Fence == FENCE
\* "--- a/f"  the old-file header of a diff
R_HeaderOld == <<"-","-","-"," ","a","/","f">>
\* "---"      a markdown horizontal rule
R_RuleDash == DASHES
\* "+++"      a decorative rule
R_RulePlus == PLUSES

ResponseLinePool ==
    { R_Prose, R_Prose2, R_FenceDiff, R_Fence, R_HeaderOld, R_RuleDash,
      R_RulePlus }

ResponseLineSeqs == UNION {[1..n -> ResponseLinePool] : n \in 0..MaxResponseLines}

Responses == {Join(ls, <<NL>>) : ls \in ResponseLineSeqs}

NoResult == [clean |-> <<>>, key_changes |-> <<>>, notes |-> <<>>]

(***************************************************************************)
(* Driver of the extractor: one call, then a second call on the clean body *)
(***************************************************************************)
NoSplit == [description |-> <<>>, diff_content |-> <<>>]

NoReport == [raised |-> FALSE, title |-> <<>>, kafka_inventory |-> <<>>,
             code_diffs |-> <<>>, sections |-> <<>>]

\* the functions that a driver does not call have no argument and no result
ExtractorIdle ==
    diff_content = <<>> /\ extraction = NoResult /\ reextraction = NoResult

SplitterIdle == raw = <<>> /\ split = NoSplit

\* no report has been serialized
NoJson == [title |-> <<>>, kafka_inventory |-> <<>>, code_diffs |-> <<>>,
           sections |-> <<>>,
           stats |-> [total_files_with_kafka |-> 0, total_files_with_diffs |-> 0,
                      sections_count |-> 0]]

ParserIdle ==
    /\ table_rows = <<>>
    /\ markdown_content = <<>>
    /\ report = NoReport
    /\ serialized = NoJson

NoState == [repo_url |-> <<>>, kafka_inventory |-> <<>>, code_diffs |-> <<>>,
            messages |-> <<>>]

GeneratorIdle == state = NoState /\ repo_files = {} /\ rerendered = <<>>

\* lines 34-36: the fields of a parser after __init__
NewParser == [current_section |-> "None", sections |-> <<>>]

InstanceIdle == parser = NewParser /\ calls = <<>>

\* the main program has not been started
NoMain ==
    [args |-> [api_key |-> "", base_url |-> "", repo_path_exists |-> FALSE,
               repo_path_is_cwd |-> FALSE],
     report_filename |-> <<>>, report_generated |-> FALSE, analysis_type |-> "",
     stdout |-> <<>>, files |-> {}, exit_status |-> -1]

MainIdle == main = NoMain

InitExtract ==
    /\ pc = "extract"
    /\ diff_content \in DiffBodies
    /\ extraction = NoResult
    /\ reextraction = NoResult
    /\ SplitterIdle
    /\ ParserIdle
    /\ GeneratorIdle
    /\ InstanceIdle
    /\ MainIdle

Extract ==
    /\ pc = "extract"
    /\ extraction' = _extract_key_changes_and_notes(diff_content)
    /\ pc' = "extracted"
    /\ UNCHANGED <<diff_content, reextraction, splitterVars, parserVars, generatorVars,
                 instanceVars, mainVars>>

ExtractAgain ==
    /\ pc = "extracted"
    /\ reextraction' = _extract_key_changes_and_notes(extraction.clean)
    /\ pc' = "reextracted"
    /\ UNCHANGED <<diff_content, extraction, splitterVars, parserVars, generatorVars,
                 instanceVars, mainVars>>

NextExtract == Extract \/ ExtractAgain

SpecExtract == InitExtract /\ [][NextExtract]_vars

\* C1: extracting again from the clean body of an extraction returns that
\* same clean body and no key changes and no notes.
C1_Idempotent ==
    pc = "reextracted" =>
        /\ reextraction.clean = extraction.clean
        /\ reextraction.key_changes = <<>>
        /\ reextraction.notes = <<>>

C1_Witness ==
    /\ pc = "reextracted"
    /\ extraction.key_changes # <<>>
    /\ extraction.notes # <<>>
    /\ extraction.clean # <<>>
    /\ extraction.clean # diff_content

(***************************************************************************)
(* C6: a trailing `+`-prefixed annotation block                            *)
(***************************************************************************)
\* "+ Note: "
PlusNoteLead == <<"+"," ","N","o","t","e",":"," ">>

\* the lines m..Len(lines) are `+ Key changes:`, k lines `+ <text>`, and a
\* final line `+ Note: <note>`
TrailingBlockAt(lines, m) ==
    /\ m \in 1..(Len(lines) - 1)
    /\ lines[m] = L_PlusKeyChanges
    /\ \A j \in (m + 1)..(Len(lines) - 1) : StartsWith(lines[j], <<"+"," ">>)
    /\ StartsWith(lines[Len(lines)], PlusNoteLead)

BlockTexts(lines, m) ==
    [j \in 1..(Len(lines) - 1 - m) |-> Drop(lines[m + j], 2)]

BlockNote(lines) == Drop(lines[Len(lines)], Len(PlusNoteLead))

IsMarkerLine(l) == IsKeyChangesLine(Strip(l)) \/ IsNoteLine(Strip(l))

\* C6 as stated: for every diff body that ends with a line `+ Key changes:`,
\* k lines `+ <text_i>` and a line `+ Note: <note>`, the extraction returns
\* key changes [text_1..text_k], notes [note] and the body without those
\* k+2 lines.
C6_AsStated ==
    pc = "extracted" =>
        LET lines == Split(diff_content, NL) IN
        \A m \in 1..Len(lines) :
            TrailingBlockAt(lines, m) =>
                /\ extraction.key_changes = BlockTexts(lines, m)
                /\ extraction.notes = <<BlockNote(lines)>>
                /\ extraction.clean = Join(Take(lines, m - 1), <<NL>>)

\* C6 amended: the same, for bodies in which no line before the block is a
\* Key-changes or Note marker line, every text_i is non-blank and does not
\* start with `note:` (any case), and the note is non-blank; the texts and
\* the note are returned trimmed.
C6_TrailingBlock ==
    pc = "extracted" =>
        LET lines == Split(diff_content, NL) IN
        \A m \in 1..Len(lines) :
            ( /\ TrailingBlockAt(lines, m)
              /\ \A j \in 1..(m - 1) : ~IsMarkerLine(lines[j])
              /\ \A j \in 1..Len(BlockTexts(lines, m)) :
                    /\ Strip(BlockTexts(lines, m)[j]) # <<>>
                    /\ ~StartsWith(Lower(Strip(BlockTexts(lines, m)[j])), NOTE)
              /\ Strip(BlockNote(lines)) # <<>> )
            =>
                /\ extraction.key_changes =
                      [j \in 1..Len(BlockTexts(lines, m)) |->
                          Strip(BlockTexts(lines, m)[j])]
                /\ extraction.notes = <<Strip(BlockNote(lines))>>
                /\ extraction.clean = Join(Take(lines, m - 1), <<NL>>)

\* the block of the specification's example: two different texts and a note
C6_Witness ==
    /\ pc = "extracted"
    /\ diff_content =
          Join(<<L_PlusKeyChanges, L_PlusText, L_PlusText2, L_PlusNote>>, <<NL>>)
    /\ extraction.key_changes = << <<"a","b">>, <<"x","y">> >>
    /\ extraction.notes = << <<"c","d">> >>
    /\ extraction.clean = <<>>

(***************************************************************************)
(* Driver of the splitter: one call on a model response                    *)
(***************************************************************************)
InitSplit ==
    /\ pc = "split"
    /\ raw \in Responses
    /\ split = NoSplit
    /\ ExtractorIdle
    /\ ParserIdle
    /\ GeneratorIdle
    /\ InstanceIdle
    /\ MainIdle

SplitResponse ==
    /\ pc = "split"
    /\ split' = extract_description_and_diff(raw)
    /\ pc' = "split_done"
    /\ UNCHANGED <<raw, extractorVars, parserVars, generatorVars, instanceVars, mainVars>>

NextSplit == SplitResponse

SpecSplit == InitSplit /\ [][NextSplit]_vars

(***************************************************************************)
(* C4: prose inside the qualifying fence, before the diff                  *)
(***************************************************************************)
\* a diff-start marker line: `diff --git`, `index `, `--- x`, `+++ x`, `@@ `
DiffStartMarker(l) ==
    \/ StartsWith(l, DIFF_GIT)
    \/ StartsWith(l, INDEX \o <<" ">>)
    \/ StartsWith(l, DASHES \o <<" ">>) /\ Len(l) >= 5 /\ l[5] # "-"
    \/ StartsWith(l, PLUSES \o <<" ">>) /\ Len(l) >= 5 /\ l[5] # "+"
    \/ StartsWith(l, ATAT \o <<" ">>)

\* the lines of a response are: lines without backquotes, an opening fence
\* at b, one or more prose lines, the first diff-start marker at m, and the
\* first following fence delimiter at c; the fence is tagged diff or patch,
\* or the marker makes it a diff block by content
FenceWithProse(lines, b, m, c) ==
    /\ 1 <= b /\ b + 2 <= m /\ m < c /\ c <= Len(lines)
    /\ \A j \in 1..(b - 1) : ~Contains(lines[j], FENCE)
    /\ StartsWith(lines[b], FENCE)
    /\ \A k \in 4..Len(lines[b]) : lines[b][k] \in WordChars
    /\ \A j \in (b + 1)..(c - 1) : ~StartsWith(lines[j], FENCE)
    /\ StartsWith(lines[c], FENCE)
    /\ \A j \in (b + 1)..(m - 1) :
          ~DiffStartMarker(lines[j]) /\ Strip(lines[j]) # <<>>
    /\ DiffStartMarker(lines[m])
    /\ \/ Lower(Drop(lines[b], 3)) \in {LANG_DIFF, LANG_PATCH}
       \/ ~StartsWith(lines[m], INDEX)

\* C4: when the qualifying fenced block holds prose lines before its first
\* diff-start marker line, the description is the text before the fence
\* joined by a newline with that prose (the prose alone when nothing precedes
\* the fence), and the diff body is the fence content from the marker line
\* onward.
C4_FenceNesting ==
    pc = "split_done" =>
        LET lines == Split(raw, NL) IN
        \A b \in 1..Len(lines), m \in 1..Len(lines), c \in 1..Len(lines) :
            FenceWithProse(lines, b, m, c) =>
                /\ split.description =
                      IF b = 1
                      THEN Strip(Join(SubSeq(lines, b + 1, m - 1), <<NL>>))
                      ELSE Strip(Join(Take(lines, b - 1), <<NL>>)) \o <<NL>>
                             \o Strip(Join(SubSeq(lines, b + 1, m - 1), <<NL>>))
                /\ split.diff_content =
                      Strip(Join(SubSeq(lines, m, c - 1), <<NL>>))

\* "ab", "```diff", "cd", "--- a/f", "```"
C4_Witness ==
    /\ pc = "split_done"
    /\ raw = Join(<<R_Prose, R_FenceDiff, R_Prose2, R_HeaderOld, R_Fence>>, <<NL>>)
    /\ split.description = R_Prose \o <<NL>> \o R_Prose2
    /\ split.diff_content = R_HeaderOld

(***************************************************************************)
(* C5: bare `---` and `+++` rules                                          *)
(***************************************************************************)
\* every line is prose, a bare rule or an untagged fence delimiter, and
\* there is a bare rule
OnlyBareRules(lines) ==
    /\ \A j \in 1..Len(lines) :
          lines[j] \in {R_Prose, R_Prose2, R_RuleDash, R_RulePlus, R_Fence}
    /\ \E j \in 1..Len(lines) : lines[j] \in {R_RuleDash, R_RulePlus}

\* C5: for every response whose only diff-like lines are bare `---` or `+++`
\* lines, outside a fence or inside a fence that is not tagged diff/patch,
\* the diff body is empty and the whole input is the description.
C5_BareRulesAreNotDiff ==
    (pc = "split_done" /\ OnlyBareRules(Split(raw, NL))) =>
        /\ split.diff_content = <<>>
        /\ split.description = Strip(raw)

(***************************************************************************)
(* Documents handed to parse_report                                        *)
(***************************************************************************)
\* "| File | APIs Used | Summary |"   default.py line 516
TABLE_HEADER == <<"|"," ","F","i","l","e"," ","|"," ","A","P","I","s"," ","U","s","e","d"," ","|"," ","S","u","m","m","a","r","y"," ","|">>
\* "|------|-----------|---------|"   default.py line 517
TABLE_RULE == <<"|","-","-","-","-","-","-","|","-","-","-","-","-","-","-","-","-","-","-","|","-","-","-","-","-","-","-","-","-","|">>

\* "| a | b |"            a row of two columns
T_Two == <<"|"," ","a"," ","|"," ","b"," ","|">>
\* "| a | b | c |"        a row of three columns
T_Three == <<"|"," ","a"," ","|"," ","b"," ","|"," ","c"," ","|">>
\* "| a | b | c | d |"    a row of four columns
T_Four == <<"|"," ","a"," ","|"," ","b"," ","|"," ","c"," ","|"," ","d"," ","|">>
\* "| a | b | c--- | d |" a row of four columns, one cell holding dashes
T_FourDashes == <<"|"," ","a"," ","|"," ","b"," ","|"," ","c","-","-","-"," ","|"," ","d"," ","|">>

\* ""                     a blank line between the rows
T_Blank == <<>>

TableRowPool == {T_Two, T_Three, T_Four, T_FourDashes, T_Blank}

TableRowSeqs == UNION {[1..n -> TableRowPool] : n \in 0..MaxTableRows}

\* the inventory section as the generator lays it out, with the given rows
TableDocument(rows) ==
    Join(<<INVENTORY_HEADING, <<>>, TABLE_HEADER, TABLE_RULE>> \o rows, <<NL>>)

\* fragments of a report, in any order and number
\* "# T"
D_Title == <<"#"," ","T">>
\* the inventory heading, a blank line, the header row and the separator
D_Inventory == TableDocument(<<>>)
\* "## 1. Kafka Usage Inventory", not followed by a blank line
D_InventoryHeading == INVENTORY_HEADING
\* "## 2. Code Migration Diffs"
D_Diffs == H2 \o TWO_DOT \o DIFFS_HEADING
\* "### f"
D_File == H3 \o <<"f">>
\* "```diff", "+x", "```"
D_Block == FENCE_DIFF_NL \o <<"+","x">> \o NL_FENCE
\* "```diff", "+x", "Key Changes:", "+ k", "Note: n", "```"
D_BlockWithChanges ==
    FENCE_DIFF_NL \o <<"+","x",NL,"K","e","y"," ","C","h","a","n","g","e","s",":",NL,
                      "+"," ","k",NL,"N","o","t","e",":"," ","n">> \o NL_FENCE
\* "x"
D_Prose == <<"x">>

\* headings that contain the logical name of the section
\* "## Usage Inventory"
H_UsageInventory == <<"#","#"," ","U","s","a","g","e"," ","I","n","v","e","n","t","o","r","y">>
\* "## INVENTORY"
H_InventoryUpper == <<"#","#"," ","I","N","V","E","N","T","O","R","Y">>
\* "## File diffs"
H_FileDiffs == <<"#","#"," ","F","i","l","e"," ","d","i","f","f","s">>

InventoryHeadings == {INVENTORY_HEADING, H_UsageInventory, H_InventoryUpper}

DiffsHeadings == {D_Diffs, H2 \o DIFFS_HEADING, H_FileDiffs}

\* the inventory section under a given heading
HeadedTableDocument(heading, rows) ==
    Join(<<heading, <<>>, TABLE_HEADER, TABLE_RULE>> \o rows, <<NL>>)

\* a diffs section under a given heading, with n blocks as the generator
\* lays them out: the file line, the fence, a blank line
HeadedDiffsDocument(heading, n) ==
    Join(<<heading, <<>>>>
             \o [k \in 1..(3 * n) |->
                    IF k % 3 = 1 THEN D_File
                    ELSE IF k % 3 = 2 THEN D_Block ELSE <<>>],
         <<NL>>)

FragmentPool ==
    { D_Title, D_Inventory, D_InventoryHeading, T_Three, D_Diffs, D_File,
      D_Block, D_Prose }

FragmentSeqs == UNION {[1..n -> FragmentPool] : n \in 0..MaxFragments}

Documents == {Join(fs, <<NL>>) : fs \in FragmentSeqs}

\* lines around the title of a report
\* "#  U ", a level-1 heading with blanks around its text
D_TitlePadded == <<"#"," "," ","U"," ">>
\* "#T", no heading: the blank behind the "#" is missing
D_NoHeading == <<"#","T">>
\* " # T", no heading: the line does not start with the "#"
D_Indented == <<" ","#"," ","T">>

TitlePool == {D_Title, D_TitlePadded, D_NoHeading, D_Indented, D_Prose, D_File}

\* documents of up to MaxFragments - 1 such lines
TitleDocuments ==
    {Join(fs, <<NL>>) : fs \in UNION {[1..n -> TitlePool] : n \in 1..(MaxFragments - 1)}}

(***************************************************************************)
(* Literals of generate_report_streaming, src/scripts/default.py           *)
(***************************************************************************)
\* "readme.md"   line 407
README_MD == <<"r","e","a","d","m","e",".","m","d">>
\* "replace"   line 424
REPLACE == <<"r","e","p","l","a","c","e">>
\* "replac"   line 424
REPLAC == <<"r","e","p","l","a","c">>
\* "kafka"   line 425
KAFKA == <<"k","a","f","k","a">>
\* "azure"   line 425
AZURE == <<"a","z","u","r","e">>
\* "service bus"   line 425
SERVICE_BUS == <<"s","e","r","v","i","c","e"," ","b","u","s">>
\* "consumer"   line 427
CONSUMER == <<"c","o","n","s","u","m","e","r">>
\* "producer"   line 429
PRODUCER == <<"p","r","o","d","u","c","e","r">>
\* "servicebus"   line 427
SERVICEBUS == <<"s","e","r","v","i","c","e","b","u","s">>
\* "Migrated from Kafka to Azure Service Bus in "   line 426
MIGRATED_IN == <<"M","i","g","r","a","t","e","d"," ","f","r","o","m"," ","K","a","f","k","a"," ","t","o"," ","A","z","u","r","e"," ","S","e","r","v","i","c","e"," ","B","u","s"," ","i","n"," ">>
\* "Replaced Kafka Consumer with Azure Service Bus receiver in "   line 428
REPLACED_CONSUMER_IN == <<"R","e","p","l","a","c","e","d"," ","K","a","f","k","a"," ","C","o","n","s","u","m","e","r"," ","w","i","t","h"," ","A","z","u","r","e"," ","S","e","r","v","i","c","e"," ","B","u","s"," ","r","e","c","e","i","v","e","r"," ","i","n"," ">>
\* "Replaced Kafka Producer with Azure Service Bus sender in "   line 430
REPLACED_PRODUCER_IN == <<"R","e","p","l","a","c","e","d"," ","K","a","f","k","a"," ","P","r","o","d","u","c","e","r"," ","w","i","t","h"," ","A","z","u","r","e"," ","S","e","r","v","i","c","e"," ","B","u","s"," ","s","e","n","d","e","r"," ","i","n"," ">>
\* "Azure.Messaging.ServiceBus"   line 445
AZURE_MESSAGING_SERVICEBUS == <<"A","z","u","r","e",".","M","e","s","s","a","g","i","n","g",".","S","e","r","v","i","c","e","B","u","s">>
\* "ServiceBusClient"   line 447
SERVICEBUSCLIENT == <<"S","e","r","v","i","c","e","B","u","s","C","l","i","e","n","t">>
\* "ServiceBusSender"   line 449
SERVICEBUSSENDER == <<"S","e","r","v","i","c","e","B","u","s","S","e","n","d","e","r">>
\* "ServiceBusReceiver"   line 451
SERVICEBUSRECEIVER == <<"S","e","r","v","i","c","e","B","u","s","R","e","c","e","i","v","e","r">>
\* "ServiceBusProcessor"   line 451
SERVICEBUSPROCESSOR == <<"S","e","r","v","i","c","e","B","u","s","P","r","o","c","e","s","s","o","r">>
\* "Confluent.Kafka"   line 455
CONFLUENT_KAFKA == <<"C","o","n","f","l","u","e","n","t",".","K","a","f","k","a">>
\* "Replaced Kafka library with Azure.Messaging.ServiceBus in "   line 460
REPLACED_LIBRARY_IN == <<"R","e","p","l","a","c","e","d"," ","K","a","f","k","a"," ","l","i","b","r","a","r","y"," ","w","i","t","h"," ","A","z","u","r","e",".","M","e","s","s","a","g","i","n","g",".","S","e","r","v","i","c","e","B","u","s"," ","i","n"," ">>
\* "Introduced ServiceBusSender for message publishing in "   line 462
INTRODUCED_SENDER_IN == <<"I","n","t","r","o","d","u","c","e","d"," ","S","e","r","v","i","c","e","B","u","s","S","e","n","d","e","r"," ","f","o","r"," ","m","e","s","s","a","g","e"," ","p","u","b","l","i","s","h","i","n","g"," ","i","n"," ">>
\* "Introduced ServiceBus receiver/processor for message consumption in "   line 464
INTRODUCED_RECEIVER_IN == <<"I","n","t","r","o","d","u","c","e","d"," ","S","e","r","v","i","c","e","B","u","s"," ","r","e","c","e","i","v","e","r","/","p","r","o","c","e","s","s","o","r"," ","f","o","r"," ","m","e","s","s","a","g","e"," ","c","o","n","s","u","m","p","t","i","o","n"," ","i","n"," ">>
\* "Added ServiceBusClient for connection management in "   line 466
ADDED_CLIENT_IN == <<"A","d","d","e","d"," ","S","e","r","v","i","c","e","B","u","s","C","l","i","e","n","t"," ","f","o","r"," ","c","o","n","n","e","c","t","i","o","n"," ","m","a","n","a","g","e","m","e","n","t"," ","i","n"," ">>
\* "Code migration changes in "   line 474
CODE_MIGRATION_CHANGES_IN == <<"C","o","d","e"," ","m","i","g","r","a","t","i","o","n"," ","c","h","a","n","g","e","s"," ","i","n"," ">>
\* "<!--BEGIN:REPORT_JSON-->"   line 507
BEGIN_REPORT_JSON == <<"<","!","-","-","B","E","G","I","N",":","R","E","P","O","R","T","_","J","S","O","N","-","-",">">>
\* "<!--END:REPORT_JSON-->"   line 509
END_REPORT_JSON == <<"<","!","-","-","E","N","D",":","R","E","P","O","R","T","_","J","S","O","N","-","-",">">>
\* "# Kafka → Azure Service Bus Migration Report"   line 512
REPORT_TITLE == <<"#"," ","K","a","f","k","a"," ","U+2192"," ","A","z","u","r","e"," ","S","e","r","v","i","c","e"," ","B","u","s"," ","M","i","g","r","a","t","i","o","n"," ","R","e","p","o","r","t">>
\* "## 2. Code Migration Diffs"   line 523
DIFFS_SECTION_HEADING == <<"#","#"," ","2","."," ","C","o","d","e"," ","M","i","g","r","a","t","i","o","n"," ","D","i","f","f","s">>
\* "*No diff content generated*"   line 546
NO_DIFF_CONTENT == <<"*","N","o"," ","d","i","f","f"," ","c","o","n","t","e","n","t"," ","g","e","n","e","r","a","t","e","d","*">>
\* "migration-report.md"   line 385
REPORT_PATH == <<"m","i","g","r","a","t","i","o","n","-","r","e","p","o","r","t",".","m","d">>
\* "Migration report generated at "   line 552
REPORT_GENERATED_AT == <<"M","i","g","r","a","t","i","o","n"," ","r","e","p","o","r","t"," ","g","e","n","e","r","a","t","e","d"," ","a","t"," ">>
\* "meta"   line 495
K_META == <<"m","e","t","a">>
\* "repoUrl"   line 496
K_REPOURL == <<"r","e","p","o","U","r","l">>
\* "generatedAt"   line 497
K_GENERATEDAT == <<"g","e","n","e","r","a","t","e","d","A","t">>
\* "keyChanges"   line 499
K_KEYCHANGES == <<"k","e","y","C","h","a","n","g","e","s">>
\* "notes"   line 500
K_NOTES == <<"n","o","t","e","s">>
\* "diffs"   line 501
K_DIFFS == <<"d","i","f","f","s">>
\* "inventory"   line 502
K_INVENTORY == <<"i","n","v","e","n","t","o","r","y">>
\* "path"   line 481
K_PATH == <<"p","a","t","h">>
\* "diff"   line 482
K_DIFF == <<"d","i","f","f">>
\* "description"   line 483
K_DESCRIPTION == <<"d","e","s","c","r","i","p","t","i","o","n">>
\* "file"   line 230
K_FILE == <<"f","i","l","e">>
\* "kafka_apis"   line 230
K_KAFKA_APIS == <<"k","a","f","k","a","_","a","p","i","s">>
\* "summary"   line 230
K_SUMMARY == <<"s","u","m","m","a","r","y">>

(***************************************************************************)
(* generate_report_streaming: the key changes of the diff records          *)
(***************************************************************************)
\* lines 407 and 531: file_name.lower() == "readme.md"
IsReadme(file_name) == Lower(file_name) = README_MD

\* lines 410 and 527: diff.get("diff_content", "") or diff.get("diff", "");
\* the records built by generate_code_diffs have no key "diff"
FileDiff(diff) == IF diff.diff_content # <<>> THEN diff.diff_content ELSE <<>>

\* line 427: str.replace(' ', '')
RemoveSpaces(s) == SelectSeq(s, LAMBDA ch : ch # " ")

\* lines 422-430: method 1, from the description
DescriptionKeyChanges(file_name, description) ==
    IF description = <<>> THEN <<>>
    ELSE LET desc_lower == Lower(description) IN
         (IF /\ Contains(desc_lower, REPLACE) \/ Contains(desc_lower, REPLAC)
             /\ Contains(desc_lower, KAFKA)
             /\ Contains(desc_lower, AZURE) \/ Contains(desc_lower, SERVICE_BUS)
          THEN <<MIGRATED_IN \o file_name>> ELSE <<>>)
         \o
         (IF /\ Contains(desc_lower, CONSUMER)
             /\ Contains(RemoveSpaces(desc_lower), SERVICEBUS)
          THEN <<REPLACED_CONSUMER_IN \o file_name>> ELSE <<>>)
         \o
         (IF /\ Contains(desc_lower, PRODUCER)
             /\ Contains(RemoveSpaces(desc_lower), SERVICEBUS)
          THEN <<REPLACED_PRODUCER_IN \o file_name>> ELSE <<>>)

\* lines 439-441: the stripped lines of the diff
StrippedLines(file_diff) ==
    {Strip(Split(file_diff, NL)[k]) : k \in 1..Len(Split(file_diff, NL))}

\* lines 443-444: those that are added lines
AddedLines(file_diff) ==
    {s \in StrippedLines(file_diff) :
        StartsWith(s, <<"+">>) /\ ~StartsWith(s, PLUSES)}

\* line 454: those that are removed lines
RemovedLines(file_diff) ==
    {s \in StrippedLines(file_diff) :
        StartsWith(s, <<"-">>) /\ ~StartsWith(s, DASHES)}

\* lines 433-466: method 2, from the diff
DiffKeyChanges(file_name, file_diff) ==
    IF file_diff = <<>> THEN <<>>
    ELSE LET added   == AddedLines(file_diff)
             removed == RemovedLines(file_diff)
             has_azure_import == \E s \in added : Contains(s, AZURE_MESSAGING_SERVICEBUS)
             has_servicebus_client == \E s \in added : Contains(s, SERVICEBUSCLIENT)
             has_servicebus_sender == \E s \in added : Contains(s, SERVICEBUSSENDER)
             has_servicebus_receiver ==
                 \E s \in added : \/ Contains(s, SERVICEBUSRECEIVER)
                                  \/ Contains(s, SERVICEBUSPROCESSOR)
             has_kafka_removal ==
                 \E s \in removed : \/ Contains(s, CONFLUENT_KAFKA)
                                    \/ Contains(Lower(s), KAFKA)
         IN  (IF has_azure_import /\ has_kafka_removal
              THEN <<REPLACED_LIBRARY_IN \o file_name>> ELSE <<>>)
             \o (IF has_servicebus_sender
                 THEN <<INTRODUCED_SENDER_IN \o file_name>> ELSE <<>>)
             \o (IF has_servicebus_receiver
                 THEN <<INTRODUCED_RECEIVER_IN \o file_name>> ELSE <<>>)
             \o (IF has_servicebus_client
                 THEN <<ADDED_CLIENT_IN \o file_name>> ELSE <<>>)

\* line 473: a diff shorter than this gets no fallback key change
FallbackMinLength == 20

\* lines 419-475: what one diff record adds to all_key_changes
KeyChangesAdded(diff) ==
    LET key_changes_for_file ==
            DescriptionKeyChanges(diff.file, diff.description)
                \o DiffKeyChanges(diff.file, FileDiff(diff))
    IN  {key_changes_for_file[k] : k \in 1..Len(key_changes_for_file)}
        \cup (IF /\ key_changes_for_file = <<>>
                 /\ FileDiff(diff) # <<>>
                 /\ Len(Strip(FileDiff(diff))) > FallbackMinLength
              THEN {CODE_MIGRATION_CHANGES_IN \o diff.file} ELSE {})

\* lines 405-475: all_key_changes, README records skipped
AllKeyChanges(diffs) ==
    UNION {KeyChangesAdded(diffs[k]) :
              k \in {j \in 1..Len(diffs) : ~IsReadme(diffs[j].file)}}

\* line 488 for a list that was appended to: each change is in the list, some
\* of them twice
Orderings_WithRepeats(S) ==
    {f \in [1..(2 * Cardinality(S)) -> S] : \A x \in S : \E i \in DOMAIN f : f[i] = x}

\* line 488: list(all_key_changes); the order of a set of str is any order
Orderings(S) ==
    {f \in [1..Cardinality(S) -> S] : \A i, j \in 1..Cardinality(S) : f[i] = f[j] => i = j}

\* lines 405-408 and 478-482 without the test of line 407
StructuredDiffs_WithReadme(diffs) ==
    [k \in 1..Len(diffs) |->
        [path |-> diffs[k].file, diff |-> FileDiff(diffs[k]),
         description |-> diffs[k].description]]

\* lines 405-408 and 478-482: structured_diffs
StructuredDiffs(diffs) ==
    LET kept == SelectSeq(diffs, LAMBDA d : ~IsReadme(d.file))
    IN  [k \in 1..Len(kept) |->
            [path |-> kept[k].file, diff |-> FileDiff(kept[k]),
             description |-> kept[k].description]]

(***************************************************************************)
(* json.dumps(json_data, indent=2, ensure_ascii=False)                     *)
(***************************************************************************)
\* the escapes of a JSON string, for the characters of the alphabet
EscapeChar(ch) ==
    CASE ch = "\"" -> <<"\\", "\"">>
      [] ch = "\\" -> <<"\\", "\\">>
      [] ch = NL   -> <<"\\", "n">>
      [] ch = "\t" -> <<"\\", "t">>
      [] OTHER     -> <<ch>>

\* the characters that have an escape
Escaped == {"\"", "\\", NL, "\t"}

\* the text with each such character replaced by its escape
RECURSIVE JsonEscape(_)
JsonEscape(s) ==
    LET c == {i \in 1..Len(s) : s[i] \in Escaped}
    IN  IF c = {} THEN s
        ELSE Take(s, SetMin(c) - 1) \o EscapeChar(s[SetMin(c)])
                 \o JsonEscape(Drop(s, SetMin(c)))

JsonString(s) == <<"\"">> \o JsonEscape(s) \o <<"\"">>

Indent(n) == [i \in 1..n |-> " "]

\* a list of serialized items, the list itself indented by level
JsonArray(items, level) ==
    IF items = <<>> THEN <<"[", "]">>
    ELSE <<"[", NL>>
         \o Join([k \in 1..Len(items) |-> Indent(level + 2) \o items[k]], <<",", NL>>)
         \o <<NL>> \o Indent(level) \o <<"]">>

JsonMember(key, value) == JsonString(key) \o <<":", " ">> \o value

\* a dict of serialized members, the dict itself indented by level
JsonObject(members, level) ==
    IF members = <<>> THEN <<"{", "}">>
    ELSE <<"{", NL>>
         \o Join([k \in 1..Len(members) |-> Indent(level + 2) \o members[k]], <<",", NL>>)
         \o <<NL>> \o Indent(level) \o <<"}">>

\* lines 494-503 and 508
JsonDumps(json_data) ==
    JsonObject(
      << JsonMember(K_META,
            JsonObject(<< JsonMember(K_REPOURL, JsonString(json_data.meta.repoUrl)),
                          JsonMember(K_GENERATEDAT,
                                     JsonString(json_data.meta.generatedAt)) >>, 2)),
         JsonMember(K_KEYCHANGES,
            JsonArray([k \in 1..Len(json_data.keyChanges) |->
                          JsonString(json_data.keyChanges[k])], 2)),
         JsonMember(K_NOTES,
            JsonArray([k \in 1..Len(json_data.notes) |->
                          JsonString(json_data.notes[k])], 2)),
         JsonMember(K_DIFFS,
            JsonArray([k \in 1..Len(json_data.diffs) |->
                JsonObject(<< JsonMember(K_PATH, JsonString(json_data.diffs[k].path)),
                              JsonMember(K_DIFF, JsonString(json_data.diffs[k].diff)),
                              JsonMember(K_DESCRIPTION,
                                  JsonString(json_data.diffs[k].description)) >>, 4)],
                2)),
         JsonMember(K_INVENTORY,
            JsonArray([k \in 1..Len(json_data.inventory) |->
                JsonObject(<< JsonMember(K_FILE,
                                  JsonString(json_data.inventory[k].file)),
                              JsonMember(K_KAFKA_APIS,
                                  JsonArray([a \in 1..Len(json_data.inventory[k].kafka_apis) |->
                                      JsonString(json_data.inventory[k].kafka_apis[a])], 6)),
                              JsonMember(K_SUMMARY,
                                  JsonString(json_data.inventory[k].summary)) >>, 4)],
                2)) >>, 0)

(***************************************************************************)
(* generate_report_streaming: the file it writes                           *)
(***************************************************************************)
\* lines 494-503
JsonData(st, generatedAt, key_changes_list) ==
    [meta       |-> [repoUrl |-> st.repo_url, generatedAt |-> generatedAt],
     keyChanges |-> key_changes_list,
     notes      |-> <<>>,
     diffs      |-> StructuredDiffs(st.code_diffs),
     inventory  |-> st.kafka_inventory]

\* line 519
InventoryRow(item) ==
    <<PIPE, " ">> \o item.file \o <<" ", PIPE, " ">>
        \o Join(item.kafka_apis, <<",", " ">>) \o <<" ", PIPE, " ">>
        \o item.summary \o <<" ", PIPE, NL>>

\* lines 525-546 without the test of line 531
DiffSubsection_WithReadme(diff) ==
    H3 \o diff.file \o <<NL>>
       \o (IF diff.description # <<>>
           THEN diff.description \o <<NL, NL>> ELSE <<>>)
       \o (IF FileDiff(diff) # <<>>
           THEN FENCE_DIFF_NL \o Strip(FileDiff(diff)) \o <<NL>>
                    \o FENCE \o <<NL, NL>>
           ELSE NO_DIFF_CONTENT \o <<NL, NL>>)

\* lines 525-546: what the loop writes for one diff record
DiffSubsection(diff) ==
    IF IsReadme(diff.file) THEN <<>>
    ELSE H3 \o diff.file \o <<NL>>
         \o (IF diff.description # <<>>
             THEN diff.description \o <<NL, NL>> ELSE <<>>)
         \o (IF FileDiff(diff) # <<>>
             THEN FENCE_DIFF_NL \o Strip(FileDiff(diff)) \o <<NL>>
                      \o FENCE \o <<NL, NL>>
             ELSE NO_DIFF_CONTENT \o <<NL, NL>>)

\* lines 505-546 with the title of line 512 written before the JSON block
ReportText_TitleFirst(st, generatedAt, key_changes_list) ==
    REPORT_TITLE \o <<NL, NL>>
        \o BEGIN_REPORT_JSON \o <<NL>>
        \o JsonDumps(JsonData(st, generatedAt, key_changes_list))
        \o <<NL>> \o END_REPORT_JSON \o <<NL, NL>>
        \o INVENTORY_HEADING \o <<NL, NL>>
        \o TABLE_HEADER \o <<NL>>
        \o TABLE_RULE \o <<NL>>
        \o Join([k \in 1..Len(st.kafka_inventory) |->
                    InventoryRow(st.kafka_inventory[k])], <<>>)
        \o <<NL>>
        \o DIFFS_SECTION_HEADING \o <<NL, NL>>
        \o Join([k \in 1..Len(st.code_diffs) |->
                    DiffSubsection(st.code_diffs[k])], <<>>)

\* lines 505-546: the text of the report file
ReportText(st, generatedAt, key_changes_list) ==
    BEGIN_REPORT_JSON \o <<NL>>
        \o JsonDumps(JsonData(st, generatedAt, key_changes_list))
        \o <<NL>> \o END_REPORT_JSON \o <<NL, NL>>
        \o REPORT_TITLE \o <<NL, NL>>
        \o INVENTORY_HEADING \o <<NL, NL>>
        \o TABLE_HEADER \o <<NL>>
        \o TABLE_RULE \o <<NL>>
        \o Join([k \in 1..Len(st.kafka_inventory) |->
                    InventoryRow(st.kafka_inventory[k])], <<>>)
        \o <<NL>>
        \o DIFFS_SECTION_HEADING \o <<NL, NL>>
        \o Join([k \in 1..Len(st.code_diffs) |->
                    DiffSubsection(st.code_diffs[k])], <<>>)

\* line 552: the message appended to the state
ReportMessage == REPORT_GENERATED_AT \o REPORT_PATH \o <<".">>

(***************************************************************************)
(* Driver of the parser: one call of parse_report                          *)
(***************************************************************************)
InitParse ==
    /\ pc = "parse"
    /\ \/ table_rows \in TableRowSeqs /\ markdown_content = TableDocument(table_rows)
       \/ table_rows = <<>> /\ markdown_content \in Documents
       \/ /\ table_rows \in TableRowSeqs
          /\ \E heading \in InventoryHeadings :
                markdown_content = HeadedTableDocument(heading, table_rows)
       \/ /\ table_rows = <<>>
          /\ \E heading \in DiffsHeadings, n \in 0..MaxDiffs :
                markdown_content = HeadedDiffsDocument(heading, n)
       \/ /\ table_rows = <<>>
          /\ \E heading \in DiffsHeadings :
                markdown_content
                    = Join(<<heading, <<>>, D_File, D_BlockWithChanges>>, <<NL>>)
       \/ table_rows = <<>> /\ markdown_content \in TitleDocuments
    /\ report = NoReport
    /\ serialized = NoJson
    /\ ExtractorIdle
    /\ SplitterIdle
    /\ GeneratorIdle
    /\ InstanceIdle
    /\ MainIdle

Parse ==
    /\ pc = "parse"
    /\ report' = parse_report(markdown_content)
    /\ pc' = "parsed"
    /\ UNCHANGED <<table_rows, markdown_content, serialized, extractorVars, splitterVars,
                   generatorVars, instanceVars, mainVars>>

\* parse_migration_report_file, lines 280-281: the report is serialized
Serialize ==
    /\ pc = "parsed"
    /\ serialized' = to_json_serializable(report)
    /\ pc' = "serialized"
    /\ UNCHANGED <<table_rows, markdown_content, report, extractorVars,
                   splitterVars, generatorVars, instanceVars, mainVars>>

NextParse == Parse \/ Serialize

SpecParse == InitParse /\ [][NextParse]_vars

(***************************************************************************)
(* C3: rows of fewer or more than three columns                            *)
(***************************************************************************)
\* the rows that yield at least three columns
AcceptedRows(rows) == SelectSeq(rows, LAMBDA r : Len(Columns(r)) >= 3)

\* C3: for every table, the rows of fewer than three columns produce no
\* record and do not end the parse (there is one record per row of at least
\* three columns), and a row of more than three columns produces the record
\* of its first three cells.
C3_RaggedRows ==
    ( /\ pc = "parsed"
      /\ markdown_content = TableDocument(table_rows)
      /\ \A k \in 1..Len(table_rows) : table_rows[k] # T_Blank ) =>
        LET accepted == AcceptedRows(table_rows) IN
        /\ Len(report.kafka_inventory) = Len(accepted)
        /\ \A k \in 1..Len(accepted) :
              Len(Columns(accepted[k])) > 3 =>
                  report.kafka_inventory[k] =
                      [file      |-> Columns(accepted[k])[1],
                       apis_used |-> Columns(accepted[k])[2],
                       summary   |-> Columns(accepted[k])[3]]

(***************************************************************************)
(* C9: parse_report is total                                               *)
(***************************************************************************)
IsList(x) == DOMAIN x = 1..Len(x)

\* C9: for every input, parse_report returns without raising, and the report
\* holds a title string, a list of inventory records, a list of diff records
\* and a map of sections.
C9_Total ==
    pc = "parsed" =>
        /\ ~report.raised
        /\ IsList(report.title)
        /\ IsList(report.kafka_inventory)
        /\ \A k \in 1..Len(report.kafka_inventory) :
              DOMAIN report.kafka_inventory[k] = {"file", "apis_used", "summary"}
        /\ IsList(report.code_diffs)
        /\ \A k \in 1..Len(report.code_diffs) :
              DOMAIN report.code_diffs[k] =
                  {"file", "diff_content", "language", "description",
                   "key_changes", "notes"}
        /\ \A h \in DOMAIN report.sections :
              report.sections[h].type \in {"table", "code_diffs", "text"}

\* a document without title, inventory section or diffs section is parsed
\* into the report of the defaults, here with a text section
C9_Witness ==
    /\ pc = "parsed"
    /\ markdown_content = Join(<<D_InventoryHeading, D_File, D_Prose>>, <<NL>>)
    /\ ~report.raised
    /\ report.title = UNKNOWN_REPORT
    /\ report.kafka_inventory = <<>>
    /\ report.code_diffs = <<>>
    /\ DOMAIN report.sections = {Drop(INVENTORY_HEADING, 3)}

(***************************************************************************)
(* States handed to generate_report_streaming                              *)
(***************************************************************************)
\* "README.md"
F_README == <<"R","E","A","D","M","E",".","m","d">>
\* "ReadMe.MD"
F_ReadMe == <<"R","e","a","d","M","e",".","M","D">>
F_A == <<"a">>
F_B == <<"b">>

\* items as scan_for_kafka_usage_ai appends them (default.py line 230)
I_A == [file |-> F_A, kafka_apis |-> << <<"p">>, <<"q">> >>, summary |-> <<"s">>]
I_Readme == [file |-> F_README, kafka_apis |-> << <<"p">> >>, summary |-> <<>>]

InventoryPool == {I_A, I_Readme}

Inventories == UNION {[1..n -> InventoryPool] : n \in 0..MaxInventory}

\* "--- a/f", "+++ b/f", "@@ -1 +1 @@", "-y", "+x"
B_Diff == <<"-","-","-"," ","a","/","f","\n","+","+","+"," ","b","/","f","\n","@","@"," ","-","1"," ","+","1"," ","@","@","\n","-","y","\n","+","x">>
\* "+ServiceBusSender"
B_Sender == <<"+","S","e","r","v","i","c","e","B","u","s","S","e","n","d","e","r">>
\* "+x"
B_Added == <<"+","x">>

\* records as generate_code_diffs appends them (default.py lines 374-379)
CodeDiffRecord(file, diff_content_, description) ==
    [file |-> file, diff_content |-> diff_content_, description |-> description,
     language |-> LANG_DIFF]

\* a diff with a description
X_A == CodeDiffRecord(F_A, B_Diff, <<"d">>)
\* no diff and no description
X_AEmpty == CodeDiffRecord(F_A, <<>>, <<>>)
\* a diff that introduces a sender
X_B == CodeDiffRecord(F_B, B_Sender, <<>>)
\* a description that holds the text of the closing sentinel
X_Sentinel == CodeDiffRecord(F_B, B_Added, END_REPORT_JSON)
\* records for the README, in two spellings
X_Readme == CodeDiffRecord(F_README, B_Added, <<"d">>)
X_ReadMe == CodeDiffRecord(F_ReadMe, <<>>, <<"r">>)

DiffPool == {X_A, X_AEmpty, X_B, X_Sentinel, X_Readme, X_ReadMe}

DiffLists == UNION {[1..n -> DiffPool] : n \in 0..MaxDiffs}

\* "https://h/r"
REPO_URL == <<"h","t","t","p","s",":","/","/","h","/","r">>

\* str(int(time.time() * 1000)) at the time of the call
Clock == { <<"1","7","6","2","0","0","0","0","0","0","0","0","0">> }

(***************************************************************************)
(* generate_code_diffs                                                     *)
(***************************************************************************)
\* what the model answers: nothing, prose only, prose and a fenced diff
\* ""
A_Nothing == <<>>
\* "ab"
A_Prose == <<"a","b">>
\* "d", "```diff", "+x", "```"
A_Diff == <<"d",NL>> \o FENCE_DIFF_NL \o B_Added \o NL_FENCE

LlmResponses == {A_Nothing, A_Prose, A_Diff}

\* lines 331-381: the records for the items from index i on; responses[i]
\* is resp.content for item i, files are the paths that exist and can be read
RECURSIVE CodeDiffsFrom(_, _, _, _)
CodeDiffsFrom(inventory, i, files, responses) ==
    IF i > Len(inventory) THEN <<>>
    ELSE LET file_rel == inventory[i].file IN
         IF file_rel = <<>> \/ file_rel \notin files
         THEN CodeDiffsFrom(inventory, i + 1, files, responses)
         ELSE << CodeDiffRecord(file_rel,
                     extract_description_and_diff(responses[i]).diff_content,
                     extract_description_and_diff(responses[i]).description) >>
                  \o CodeDiffsFrom(inventory, i + 1, files, responses)

(***************************************************************************)
(* Driver of the generator: the report is written, parsed, and written     *)
(* again from the parsed report                                            *)
(***************************************************************************)
InitReport ==
    /\ pc = "generate_report"
    /\ \E kafka_inventory \in Inventories, code_diffs \in DiffLists :
          state = [repo_url |-> REPO_URL, kafka_inventory |-> kafka_inventory,
                   code_diffs |-> code_diffs, messages |-> <<>>]
    /\ repo_files = {}
    /\ rerendered = <<>>
    /\ ParserIdle
    /\ ExtractorIdle
    /\ SplitterIdle
    /\ InstanceIdle
    /\ MainIdle

\* generate_report_streaming, lines 385-552
GenerateReport ==
    /\ pc = "generate_report"
    /\ \E generatedAt \in Clock,
          key_changes_list \in Orderings(AllKeyChanges(state.code_diffs)) :
          markdown_content' = ReportText(state, generatedAt, key_changes_list)
    /\ state' = [state EXCEPT !.messages = @ \o <<ReportMessage>>]
    /\ pc' = "parse"
    /\ UNCHANGED <<table_rows, report, serialized, repo_files, rerendered, extractorVars,
                   splitterVars, instanceVars, mainVars>>

\* the state that holds the records of a parsed report
AsState(report_) ==
    [repo_url        |-> <<>>,
     kafka_inventory |->
         [k \in 1..Len(report_.kafka_inventory) |->
             [file       |-> report_.kafka_inventory[k].file,
              kafka_apis |-> IF report_.kafka_inventory[k].apis_used = <<>>
                             THEN <<>>
                             ELSE <<report_.kafka_inventory[k].apis_used>>,
              summary    |-> report_.kafka_inventory[k].summary]],
     code_diffs      |->
         [k \in 1..Len(report_.code_diffs) |->
             CodeDiffRecord(report_.code_diffs[k].file,
                            report_.code_diffs[k].diff_content,
                            report_.code_diffs[k].description)],
     messages        |-> <<>>]

\* generate_report_streaming on the parsed report
RenderAgain ==
    /\ pc = "parsed"
    /\ \E generatedAt \in Clock,
          key_changes_list \in Orderings(AllKeyChanges(AsState(report).code_diffs)) :
          rerendered' = ReportText(AsState(report), generatedAt, key_changes_list)
    /\ pc' = "rerendered"
    /\ UNCHANGED <<state, repo_files, parserVars, extractorVars, splitterVars,
                   instanceVars, mainVars>>

NextReport == GenerateReport \/ Parse \/ RenderAgain

SpecReport == InitReport /\ [][NextReport]_vars

(***************************************************************************)
(* Driver of the pipeline: generate_code_diffs, then generate_report       *)
(***************************************************************************)
InitPipeline ==
    /\ pc = "generate_code_diffs"
    /\ \E kafka_inventory \in Inventories :
          state = [repo_url |-> REPO_URL, kafka_inventory |-> kafka_inventory,
                   code_diffs |-> <<>>, messages |-> <<>>]
    /\ repo_files \in SUBSET {F_A, F_README}
    /\ rerendered = <<>>
    /\ ParserIdle
    /\ ExtractorIdle
    /\ SplitterIdle
    /\ InstanceIdle
    /\ MainIdle

\* generate_code_diffs, lines 321-383
GenerateCodeDiffs ==
    /\ pc = "generate_code_diffs"
    /\ \E responses \in [1..Len(state.kafka_inventory) -> LlmResponses] :
          state' = [state EXCEPT !.code_diffs =
                       CodeDiffsFrom(state.kafka_inventory, 1, repo_files, responses)]
    /\ pc' = "generate_report"
    /\ UNCHANGED <<repo_files, rerendered, parserVars, extractorVars, splitterVars,
                   instanceVars, mainVars>>

NextPipeline == GenerateCodeDiffs \/ GenerateReport

SpecPipeline == InitPipeline /\ [][NextPipeline]_vars

(***************************************************************************)
(* C7: records of the README are not written                               *)
(***************************************************************************)
\* the state without the diff records of the README
WithoutReadme(st) ==
    [st EXCEPT !.code_diffs = SelectSeq(@, LAMBDA d : ~IsReadme(d.file))]

\* C7: the report file holds nothing of a diff record whose file name is
\* readme.md in any case: it is the file written for the state without
\* these records, it has no `### <file>` line for them and no entry of the
\* JSON diffs list with their path, whatever the inventory holds.
C7_ReadmeExcluded ==
    pc = "parse" =>
        /\ \E generatedAt \in Clock,
              key_changes_list \in
                  Orderings(AllKeyChanges(WithoutReadme(state).code_diffs)) :
              markdown_content =
                  ReportText(WithoutReadme(state), generatedAt, key_changes_list)
        /\ \A k \in 1..Len(state.code_diffs) :
              IsReadme(state.code_diffs[k].file) =>
                  /\ ~Contains(markdown_content,
                               <<NL>> \o H3 \o state.code_diffs[k].file \o <<NL>>)
                  /\ ~Contains(markdown_content,
                               JsonMember(K_PATH, JsonString(state.code_diffs[k].file)))

\* README records in both spellings next to a record that is written, the
\* README being in the inventory
C7_Witness ==
    /\ pc = "parse"
    /\ state.code_diffs = <<X_Readme, X_A>>
    /\ state.kafka_inventory = <<I_Readme>>
    /\ Contains(markdown_content, InventoryRow(I_Readme))
    /\ Contains(markdown_content, H3 \o F_A \o <<NL>>)
    /\ ~Contains(markdown_content, H3 \o F_README)

(***************************************************************************)
(* C10: the JSON block between the sentinels                               *)
(***************************************************************************)
Occurrences(s, p) == Cardinality({i \in 1..Len(s) : StartsAt(s, i, p)})

\* the text between the first BEGIN line and the first END behind it
BetweenSentinels(s) ==
    LET from == Find(s, BEGIN_REPORT_JSON \o <<NL>>, 1) + Len(BEGIN_REPORT_JSON) + 1
    IN  SubSeq(s, from, Find(s, <<NL>> \o END_REPORT_JSON, from) - 1)

\* C10: in every report file the text between the first BEGIN sentinel line
\* and the first following END sentinel is the serialized JSON document, and
\* each sentinel occurs once.
C10_JsonBlock ==
    pc = "parse" =>
        /\ \E generatedAt \in Clock,
              key_changes_list \in Orderings(AllKeyChanges(state.code_diffs)) :
              BetweenSentinels(markdown_content) =
                  JsonDumps(JsonData(state, generatedAt, key_changes_list))
        /\ Occurrences(markdown_content, BEGIN_REPORT_JSON) = 1
        /\ Occurrences(markdown_content, END_REPORT_JSON) = 1

(***************************************************************************)
(* C2: write, parse, write again                                           *)
(***************************************************************************)
\* the lines of a text that start with a prefix
LinesWith(s, prefix) == SelectSeq(Split(s, NL), LAMBDA l : StartsWith(l, prefix))

\* str.rstrip()
RStrip(s) == Take(s, SetMax({0} \cup {i \in 1..Len(s) : s[i] \notin WS}))

\* C2: the report written from the parsed report has the inventory rows of
\* the first one, in order, and its `### <file>` lines, in order, and the
\* parsed diff records are those that were written, each diff body equal up
\* to trailing white space.
C2_RoundTrip ==
    pc = "rerendered" =>
        LET written == WithoutReadme(state).code_diffs IN
        /\ LinesWith(rerendered, <<PIPE>>) = LinesWith(markdown_content, <<PIPE>>)
        /\ LinesWith(rerendered, H3) = LinesWith(markdown_content, H3)
        /\ Len(report.code_diffs) = Len(written)
        /\ \A k \in 1..Len(written) :
              /\ report.code_diffs[k].file = written[k].file
              /\ RStrip(report.code_diffs[k].diff_content)
                    = RStrip(written[k].diff_content)

(***************************************************************************)
(* C8: inventory records without diff content                              *)
(***************************************************************************)
\* no diff record of the file holds a diff
HasNoDiffContent(st, file) ==
    \A j \in 1..Len(st.code_diffs) :
        st.code_diffs[j].file = file => st.code_diffs[j].diff_content = <<>>

\* the text has a `### <file>` line whose subsection holds the placeholder line
HasPlaceholderSubsection(s, file) ==
    LET lines == Split(s, NL) IN
    \E i \in 1..Len(lines), j \in 1..Len(lines) :
        /\ i < j
        /\ lines[i] = H3 \o file
        /\ lines[j] = NO_DIFF_CONTENT
        /\ \A m \in (i + 1)..(j - 1) : ~StartsWith(lines[m], H3)

\* the text has a fence tagged diff whose body is empty or white space
HasEmptyDiffFence(s) ==
    LET lines == Split(s, NL) IN
    \E i \in 1..Len(lines), j \in 1..Len(lines) :
        /\ i < j
        /\ lines[i] = FENCE \o LANG_DIFF
        /\ lines[j] = FENCE
        /\ \A m \in (i + 1)..(j - 1) : Strip(lines[m]) = <<>>

\* C8: every inventory record without diff content has its own `### <file>`
\* subsection with the placeholder line in the report file, and the file has
\* no fence tagged diff with an empty or white-space body.
C8_EmptyDiff ==
    pc = "parse" =>
        /\ \A k \in 1..Len(state.kafka_inventory) :
              HasNoDiffContent(state, state.kafka_inventory[k].file) =>
                  HasPlaceholderSubsection(markdown_content,
                                           state.kafka_inventory[k].file)
        /\ ~HasEmptyDiffFence(markdown_content)

(***************************************************************************)
(* C11: the order of the parts of the report file                          *)
(***************************************************************************)
\* the line of the table for one inventory record
RowLine(item) ==
    <<PIPE, " ">> \o item.file \o <<" ", PIPE, " ">>
        \o Join(item.kafka_apis, <<",", " ">>) \o <<" ", PIPE, " ">>
        \o item.summary \o <<" ", PIPE>>

\* the lines of the subsections of the diff records from index k on: the
\* `### <file>` line, the description and a blank line if there is a
\* description, then the fence with the diff or the placeholder, and a blank
\* line; nothing for a record of the README
RECURSIVE SubsectionLines(_, _)
SubsectionLines(diffs, k) ==
    IF k > Len(diffs) THEN <<>>
    ELSE (IF Lower(diffs[k].file) = README_MD THEN <<>>
          ELSE <<H3 \o diffs[k].file>>
               \o (IF diffs[k].description # <<>>
                   THEN <<diffs[k].description, <<>>>> ELSE <<>>)
               \o (IF diffs[k].diff_content # <<>>
                   THEN <<FENCE \o LANG_DIFF>>
                        \o Split(Strip(diffs[k].diff_content), NL)
                        \o <<FENCE, <<>>>>
                   ELSE <<NO_DIFF_CONTENT, <<>>>>))
         \o SubsectionLines(diffs, k + 1)

\* C11: the lines of every report file are, in this order and nothing else:
\* the BEGIN sentinel, the lines of the JSON document, the END sentinel, the
\* title, the heading of the inventory with the head of its table and one row
\* per inventory record in the order of the inventory, the heading of the
\* diffs and one `### <file>` subsection per diff record that is not of the
\* README, in the order of the records, each with its description (if any)
\* before its fence or placeholder.
C11_PartsInOrder ==
    pc = "parse" =>
        \E generatedAt \in Clock,
           key_changes_list \in Orderings(AllKeyChanges(state.code_diffs)) :
           Split(markdown_content, NL) =
               <<BEGIN_REPORT_JSON>>
               \o Split(JsonDumps(JsonData(state, generatedAt, key_changes_list)), NL)
               \o <<END_REPORT_JSON, <<>>, REPORT_TITLE, <<>>,
                    INVENTORY_HEADING, <<>>, TABLE_HEADER, TABLE_RULE>>
               \o [k \in 1..Len(state.kafka_inventory) |->
                      RowLine(state.kafka_inventory[k])]
               \o << <<>>, DIFFS_SECTION_HEADING, <<>> >>
               \o SubsectionLines(state.code_diffs, 1)
               \o << <<>> >>

\* a file with two rows and, behind a record of the README, a subsection with
\* a description and a fence and one with the placeholder; the parts lie in
\* the order of the claim
C11_Witness ==
    /\ pc = "parse"
    /\ state.kafka_inventory = <<I_A, I_Readme>>
    /\ state.code_diffs = <<X_Readme, X_A>>
    /\ LET at(p) == Find(markdown_content, p, 1) IN
       /\ at(BEGIN_REPORT_JSON) = 1
       /\ at(BEGIN_REPORT_JSON) < at(<<NL>> \o END_REPORT_JSON)
       /\ at(<<NL>> \o END_REPORT_JSON) < at(<<NL>> \o REPORT_TITLE)
       /\ at(<<NL>> \o REPORT_TITLE) < at(<<NL>> \o INVENTORY_HEADING)
       /\ at(<<NL>> \o INVENTORY_HEADING) < at(<<NL>> \o RowLine(I_A))
       /\ at(<<NL>> \o RowLine(I_A)) < at(<<NL>> \o RowLine(I_Readme))
       /\ at(<<NL>> \o RowLine(I_Readme)) < at(<<NL>> \o DIFFS_SECTION_HEADING)
       /\ at(<<NL>> \o DIFFS_SECTION_HEADING) < at(<<NL>> \o H3 \o F_A)
       /\ at(<<NL>> \o H3 \o F_A \o <<NL, "d", NL>>) < at(<<NL>> \o FENCE \o LANG_DIFF)

(***************************************************************************)
(* Driver of one parser instance: calls of parse_report that run side by   *)
(* side, each one statement of lines 42-57 at a time                       *)
(***************************************************************************)
\* the documents the calls are given: an inventory, a title with a diffs
\* section, a text section, nothing
CallDocuments ==
    { TableDocument(<<T_Three>>),
      Join(<<D_Title, D_Diffs, D_File, D_Block>>, <<NL>>),
      Join(<<H2 \o D_Prose, D_Prose>>, <<NL>>),
      <<>> }

\* a call that has not run its first statement
NewCall(content) ==
    [pc |-> "title", markdown_content |-> content, title |-> <<>>,
     kafka_inventory |-> <<>>, code_diffs |-> <<>>, sections |-> <<>>,
     result |-> NoReport]

\* lines 146-179 with the dict of line 150 being the field self.sections
ParseAllSectionsOn_Field(self_, content) ==
    LET new    == _parse_all_sections(content).value
        merged == [h \in DOMAIN self_.sections \cup DOMAIN new |->
                      IF h \in DOMAIN new THEN new[h] ELSE self_.sections[h]]
    IN  [self |-> [self_ EXCEPT !.sections = merged], result |-> Return(merged)]

\* lines 146-179 as a method of the instance: the dict of line 150 is a
\* local, the fields of self are left as they are
ParseAllSectionsOn(self_, content) ==
    [self |-> self_, result |-> _parse_all_sections(content)]

\* the call after a statement whose right-hand side returned or raised
AfterStatement(call, r, local, next) ==
    IF r.raised
    THEN [call EXCEPT !.pc = "raised", !.result = [NoReport EXCEPT !.raised = TRUE]]
    ELSE [call EXCEPT !.pc = next, ![local] = r.value]

InitCalls ==
    /\ pc = "calls"
    /\ parser = NewParser
    /\ calls \in [1..MaxCalls -> {NewCall(content) : content \in CallDocuments}]
    /\ ExtractorIdle
    /\ SplitterIdle
    /\ ParserIdle
    /\ GeneratorIdle
    /\ MainIdle

\* lines 42-45
ExtractTitle(c) ==
    /\ calls[c].pc = "title"
    /\ calls' = [calls EXCEPT ![c] =
                    AfterStatement(@, Return(_extract_title(Split(@.markdown_content, NL))),
                                   "title", "kafka_inventory")]
    /\ UNCHANGED <<pc, parser, extractorVars, splitterVars, parserVars, generatorVars, mainVars>>

\* line 48
ParseKafkaInventory(c) ==
    /\ calls[c].pc = "kafka_inventory"
    /\ calls' = [calls EXCEPT ![c] =
                    AfterStatement(@, _parse_kafka_inventory(@.markdown_content),
                                   "kafka_inventory", "code_diffs")]
    /\ UNCHANGED <<pc, parser, extractorVars, splitterVars, parserVars, generatorVars, mainVars>>

\* line 49
ParseCodeDiffs(c) ==
    /\ calls[c].pc = "code_diffs"
    /\ calls' = [calls EXCEPT ![c] =
                    AfterStatement(@, _parse_code_diffs(@.markdown_content),
                                   "code_diffs", "sections")]
    /\ UNCHANGED <<pc, parser, extractorVars, splitterVars, parserVars, generatorVars, mainVars>>

\* line 50
ParseAllSections(c) ==
    /\ calls[c].pc = "sections"
    /\ LET r == ParseAllSectionsOn(parser, calls[c].markdown_content) IN
       /\ parser' = r.self
       /\ calls' = [calls EXCEPT ![c] = AfterStatement(@, r.result, "sections", "return")]
    /\ UNCHANGED <<pc, extractorVars, splitterVars, parserVars, generatorVars, mainVars>>

\* lines 52-57
ReturnReport(c) ==
    /\ calls[c].pc = "return"
    /\ calls' = [calls EXCEPT ![c].pc = "done",
                              ![c].result =
                                  [raised          |-> FALSE,
                                   title           |-> calls[c].title,
                                   kafka_inventory |-> calls[c].kafka_inventory,
                                   code_diffs      |-> calls[c].code_diffs,
                                   sections        |-> calls[c].sections]]
    /\ UNCHANGED <<pc, parser, extractorVars, splitterVars, parserVars, generatorVars, mainVars>>

NextCalls ==
    \E c \in 1..MaxCalls :
        \/ ExtractTitle(c)
        \/ ParseKafkaInventory(c)
        \/ ParseCodeDiffs(c)
        \/ ParseAllSections(c)
        \/ ReturnReport(c)

SpecCalls == InitCalls /\ [][NextCalls]_vars

(***************************************************************************)
(* C12: the calls on one instance do not see each other                    *)
(***************************************************************************)
\* C12: however the calls of parse_report on one parser instance are
\* interleaved, the instance keeps the fields it was constructed with, and
\* every call that has returned has returned the report that a call on a new
\* parser returns for its input (a call raises only if that one does).
C12_Stateless ==
    pc = "calls" =>
        /\ parser = NewParser
        /\ \A c \in DOMAIN calls :
              /\ calls[c].pc = "done" =>
                    calls[c].result = parse_report(calls[c].markdown_content)
              /\ calls[c].pc = "raised" =>
                    parse_report(calls[c].markdown_content).raised

\* two calls with different documents have both returned, each with the
\* sections of its own document
C12_Witness ==
    /\ pc = "calls"
    /\ calls[1].pc = "done"
    /\ calls[2].pc = "done"
    /\ calls[1].markdown_content = TableDocument(<<T_Three>>)
    /\ calls[2].markdown_content = Join(<<D_Title, D_Diffs, D_File, D_Block>>, <<NL>>)
    /\ Len(calls[1].result.kafka_inventory) = 1
    /\ Len(calls[2].result.code_diffs) = 1
    /\ DOMAIN calls[1].result.sections # DOMAIN calls[2].result.sections

(***************************************************************************)
(* C13: blocks of the diffs section without a fence                        *)
(***************************************************************************)
\* the indices of the `### <file>` lines
FileHeadings(lines) == {i \in 1..Len(lines) : StartsWith(lines[i], H3)}

\* the k-th smallest element of a set of numbers
Nth(S, k) == CHOOSE i \in S : Cardinality({j \in S : j < i}) = k - 1

\* the lines between the heading at i and the next heading or the end
BlockLines(lines, i) ==
    SubSeq(lines, i + 1,
           SetMin({j \in FileHeadings(lines) : j > i} \cup {Len(lines) + 1}) - 1)

\* the block has a fence tagged diff or patch, or a diff header line
HasFenceOrHeader(block) ==
    \E j \in 1..Len(block) :
        \/ StartsWith(Lower(block[j]), FENCE \o LANG_DIFF)
        \/ StartsWith(Lower(block[j]), FENCE \o LANG_PATCH)
        \/ IsDiffHeader(block[j])
        \/ IsHunkHeader(block[j])

\* the document is a diffs section only: its heading, then lines that open
\* no other section
IsDiffsSection(lines) ==
    /\ Len(lines) >= 1
    /\ lines[1] = D_Diffs
    /\ \A i \in 2..Len(lines) : ~StartsWith(lines[i], H2) /\ ~StartsWith(lines[i], H1)

\* C13: for every document that is a diffs section, the parsed diff records
\* are one per `### <file>` line, in the order of these lines, each with the
\* file of its line; a block without fence and without diff header gives the
\* record whose description is the text of the block and whose diff is
\* empty, and a block made of prose and one closed diff fence gives the
\* record with that prose and the content of that fence, whatever the
\* blocks next to it are.
C13_BlockWithoutFence ==
    LET lines == Split(markdown_content, NL)
        heads == FileHeadings(lines)
    IN  (pc = "parsed" /\ IsDiffsSection(lines)) =>
            /\ Len(report.code_diffs) = Cardinality(heads)
            /\ \A k \in 1..Cardinality(heads) :
                  LET block  == BlockLines(lines, Nth(heads, k))
                      record == report.code_diffs[k]
                      fence  == Split(D_Block, NL)
                      prose  == Len(block) - Len(fence)
                  IN  /\ record.file = Strip(Drop(lines[Nth(heads, k)], Len(H3)))
                      /\ ~HasFenceOrHeader(block) =>
                            /\ record.description = Strip(Join(block, <<NL>>))
                            /\ record.diff_content = <<>>
                      /\ ( /\ prose >= 0
                           /\ SubSeq(block, prose + 1, Len(block)) = fence
                           /\ ~HasFenceOrHeader(SubSeq(block, 1, prose)) ) =>
                            /\ record.description =
                                   Strip(Join(SubSeq(block, 1, prose), <<NL>>))
                            /\ record.diff_content = <<"+", "x">>

(***************************************************************************)
(* C14: sections under other headings                                      *)
(***************************************************************************)
\* C14: a document whose inventory heading contains `inventory` in any case
\* yields the inventory records of the same document headed
\* `## 1. Kafka Usage Inventory`, and a document whose diffs heading contains
\* `diffs` yields the diff records of the same document headed
\* `## 2. Code Migration Diffs`.
C14_HeadingContainment ==
    pc = "parsed" =>
        /\ \A heading \in InventoryHeadings :
              ( /\ Contains(Lower(heading), INVENTORY)
                /\ markdown_content = HeadedTableDocument(heading, table_rows) ) =>
                  report.kafka_inventory =
                      parse_report(HeadedTableDocument(INVENTORY_HEADING, table_rows))
                          .kafka_inventory
        /\ \A heading \in DiffsHeadings, n \in 0..MaxDiffs :
              ( /\ Contains(Lower(heading), <<"d","i","f","f","s">>)
                /\ markdown_content = HeadedDiffsDocument(heading, n) ) =>
                  report.code_diffs =
                      parse_report(HeadedDiffsDocument(D_Diffs, n)).code_diffs

(***************************************************************************)
(* C15, C16: the records of a table                                        *)
(***************************************************************************)
\* the record of a row: its first three cells
RecordOfRow(row) ==
    [file |-> Columns(row)[1], apis_used |-> Columns(row)[2],
     summary |-> Columns(row)[3]]

\* one record per row of at least three columns, in the order of the rows
RecordsOfRows(rows) ==
    [k \in 1..Len(AcceptedRows(rows)) |-> RecordOfRow(AcceptedRows(rows)[k])]

\* C15: for every table whose lines are rows and blank lines (no cell holds
\* dashes), the blank lines do not end the table: the inventory holds the
\* records of all rows of at least three columns, those behind a blank line
\* included.
C15_BlankLinesTolerated ==
    ( /\ pc = "parsed"
      /\ markdown_content = TableDocument(table_rows)
      /\ \A k \in 1..Len(table_rows) : ~Contains(table_rows[k], DASHES) ) =>
        report.kafka_inventory = RecordsOfRows(table_rows)

\* C16: for every table without blank lines, the inventory is the sequence
\* of the records of all rows behind the separator that yield at least three
\* columns, one per row and in the order of the rows, rows of the same file
\* each kept, whatever the cells hold.
C16_ExactlyAcceptedRows ==
    ( /\ pc = "parsed"
      /\ markdown_content = TableDocument(table_rows)
      /\ \A k \in 1..Len(table_rows) : table_rows[k] # T_Blank ) =>
        report.kafka_inventory = RecordsOfRows(table_rows)

(***************************************************************************)
(* C17 - C20: what the extractor removes and what it collects              *)
(***************************************************************************)
\* "notes:"
NOTES == <<"n","o","t","e","s",":">>

\* a line that, stripped and lowered, starts with `note:`, `notes:` or
\* `+ note:`
IsNoteMarkerLine(l) ==
    \/ StartsWith(Lower(Strip(l)), NOTE)
    \/ StartsWith(Lower(Strip(l)), NOTES)
    \/ StartsWith(Lower(Strip(l)), PLUS_NOTE)

\* the text behind the marker of such a line
NoteMarkerText(l) ==
    IF StartsWith(Lower(Strip(l)), PLUS_NOTE) THEN Strip(Drop(Strip(l), Len(PLUS_NOTE)))
    ELSE IF StartsWith(Lower(Strip(l)), NOTES) THEN Strip(Drop(Strip(l), Len(NOTES)))
    ELSE Strip(Drop(Strip(l), Len(NOTE)))

\* a line that, stripped and lowered, is `key changes:` or `+ key changes:`
IsKeyChangesMarkerLine(l) ==
    Lower(Strip(l)) = KEY_CHANGES \/ Lower(Strip(l)) = PLUS_KEY_CHANGES

\* the indices of the Key-changes marker lines
KeyChangesMarkers(lines) ==
    {i \in 1..Len(lines) : IsKeyChangesMarkerLine(lines[i])}

\* the text of a line without its list or diff prefix (`-`, `*`, `+`) and
\* the white space around it
Unprefixed(l) ==
    IF Strip(l) # <<>> /\ Strip(l)[1] \in {"-", "*", "+"}
    THEN Strip(Drop(Strip(l), 1))
    ELSE Strip(l)

\* an added or removed line whose sign is followed by text at once, or a
\* hunk marker
IsUnambiguousDiffLine(l) ==
    \/ Len(l) >= 2 /\ l[1] \in {"+", "-"} /\ l[2] \notin WS \cup {"+", "-"}
    \/ StartsWith(l, ATAT)

\* a `-` or `*` bullet, or a `+ <text>` annotation that is no marker
IsBulletOrAnnotation(l) ==
    /\ Len(Strip(l)) >= 3
    /\ Strip(l)[1] \in {"-", "*", "+"}
    /\ Strip(l)[2] = " "
    /\ ~IsNoteMarkerLine(l)
    /\ ~IsKeyChangesMarkerLine(l)

\* the lines at the indices of a set, in the order of the indices
LinesAt(lines, kept) == [k \in 1..Cardinality(kept) |-> lines[Nth(kept, k)]]

\* the entries of a list
Entries(list) == {list[k] : k \in 1..Len(list)}

\* C17: for every diff body, the clean body is made of lines of the body at
\* increasing indices, each unchanged, and every line left out is a
\* Key-changes or Note marker line or a non-blank line whose text is an entry
\* of the key changes.
C17_PureFiltering ==
    pc = "extracted" =>
        LET lines == Split(diff_content, NL) IN
        \E kept \in SUBSET (1..Len(lines)) :
            /\ extraction.clean = Join(LinesAt(lines, kept), <<NL>>)
            /\ \A i \in (1..Len(lines)) \ kept :
                  \/ IsKeyChangesMarkerLine(lines[i])
                  \/ IsNoteMarkerLine(lines[i])
                  \/ /\ Strip(lines[i]) # <<>>
                     /\ \/ Strip(lines[i]) \in Entries(extraction.key_changes)
                        \/ Unprefixed(lines[i]) \in Entries(extraction.key_changes)

\* C18: for every diff body with one Key-changes marker line, nothing from the
\* first following unambiguous diff line or Note marker line on is added to
\* the key changes (they hold at most one entry per line between the marker
\* and that line), and the unambiguous diff lines of the body are all in the
\* clean body, in order.
C18_StopsAtDiffContent ==
    pc = "extracted" =>
        LET lines == Split(diff_content, NL)
            m     == SetMin(KeyChangesMarkers(lines))
            stop  == SetMin({j \in (m + 1)..Len(lines) :
                                \/ IsUnambiguousDiffLine(lines[j])
                                \/ IsNoteMarkerLine(lines[j])}
                            \cup {Len(lines) + 1})
        IN  Cardinality(KeyChangesMarkers(lines)) = 1 =>
                /\ Len(extraction.key_changes) <= stop - m - 1
                /\ SelectSeq(Split(extraction.clean, NL), IsUnambiguousDiffLine)
                      = SelectSeq(lines, IsUnambiguousDiffLine)

\* C19: for every diff body with one Key-changes marker line, the bullet
\* lines (`-`, `*`) and `+ <text>` annotation lines that follow the marker
\* without a gap are the first key changes, one entry per line and in order,
\* each entry being the text of its line without prefix and surrounding
\* white space.
C19_BulletsCollected ==
    pc = "extracted" =>
        LET lines == Split(diff_content, NL)
            m     == SetMin(KeyChangesMarkers(lines))
            e     == SetMin({j \in (m + 1)..Len(lines) :
                                ~IsBulletOrAnnotation(lines[j])}
                            \cup {Len(lines) + 1}) - 1
        IN  Cardinality(KeyChangesMarkers(lines)) = 1 =>
                /\ Len(extraction.key_changes) >= e - m
                /\ \A j \in 1..(e - m) :
                      extraction.key_changes[j] = Unprefixed(lines[m + j])

\* C20: for every diff body without Key-changes marker line, the notes are
\* the texts behind the markers of the Note marker lines, one entry per such
\* line and in the order of the lines, and the clean body is made of the
\* other lines.
C20_OneNotePerMarker ==
    pc = "extracted" =>
        LET lines   == Split(diff_content, NL)
            markers == SelectSeq(lines, IsNoteMarkerLine)
            others  == SelectSeq(lines, LAMBDA l : ~IsNoteMarkerLine(l))
        IN  KeyChangesMarkers(lines) = {} =>
                /\ extraction.notes =
                      [k \in 1..Len(markers) |-> NoteMarkerText(markers[k])]
                /\ extraction.clean = Join(others, <<NL>>)

(***************************************************************************)
(* C21: the split of a response without a diff fence                       *)
(***************************************************************************)
\* the indices of the fence delimiter lines
FenceDelimiters(lines) == {i \in 1..Len(lines) : StartsWith(lines[i], FENCE)}

\* the fenced block opened by the k-th delimiter (k odd) and closed by the
\* next one is tagged diff or patch, or holds a diff-start marker line
BlockQualifies(lines, k) ==
    LET ds    == FenceDelimiters(lines)
        open  == Nth(ds, k)
        close == Nth(ds, k + 1)
    IN  \/ Lower(Strip(Drop(lines[open], Len(FENCE)))) \in {LANG_DIFF, LANG_PATCH}
        \/ \E j \in (open + 1)..(close - 1) : DiffStartMarker(lines[j])

\* no fenced block of the lines is a diff block
NoQualifyingFence(lines) ==
    \A k \in 1..Cardinality(FenceDelimiters(lines)) :
        (k % 2 = 1 /\ k + 1 <= Cardinality(FenceDelimiters(lines))) =>
            ~BlockQualifies(lines, k)

\* C21: for every response without a fenced block that is a diff block, the
\* description is the text before the first diff-start or hunk marker line
\* and the diff body the text from that line on (both trimmed); without such
\* a line the description is the whole input and the diff body is empty.
C21_FallbackSplit ==
    LET lines == Split(Strip(raw), NL)
        marks == {i \in 1..Len(lines) : DiffStartMarker(lines[i])}
    IN  (pc = "split_done" /\ NoQualifyingFence(lines)) =>
            IF marks # {}
            THEN /\ split.description =
                        Strip(Join(SubSeq(lines, 1, SetMin(marks) - 1), <<NL>>))
                 /\ split.diff_content =
                        Strip(Join(SubSeq(lines, SetMin(marks), Len(lines)), <<NL>>))
            ELSE /\ split.description = Strip(raw)
                 /\ split.diff_content = <<>>

(***************************************************************************)
(* C22: the lists of key changes and notes in the JSON document            *)
(***************************************************************************)
\* the strings of the list that the JSON document of a report file holds
\* under a key of its top level: the lines between `  "<key>": [` and the
\* closing bracket, each without indentation, comma and quotes
JsonListOf(text, key) ==
    LET lines == Split(text, NL)
        opens == {i \in 1..Len(lines) :
                     lines[i] = Indent(2) \o JsonString(key) \o <<":", " ", "[">>}
        open  == SetMin(opens)
        close == SetMin({j \in (open + 1)..Len(lines) :
                            StartsWith(lines[j], Indent(2) \o <<"]">>)})
        item(l) == LET t == IF l[Len(l)] = "," THEN Take(l, Len(l) - 1) ELSE l
                   IN  SubSeq(t, 2, Len(t) - 1)
    IN  IF opens = {} THEN <<>>
        ELSE [k \in 1..(close - open - 1) |-> item(Strip(lines[open + k]))]

\* no string is twice in the list
NoRepeats(list) ==
    \A i, j \in 1..Len(list) : list[i] = list[j] => i = j

\* C22: in every report file, the keyChanges list and the notes list of the
\* JSON document hold no string twice, and every key change detected for a
\* diff record that is not of the README is in the keyChanges list.
C22_GlobalPoolWithoutRepeats ==
    pc = "parse" =>
        /\ NoRepeats(JsonListOf(markdown_content, K_KEYCHANGES))
        /\ NoRepeats(JsonListOf(markdown_content, K_NOTES))
        /\ \A k \in 1..Len(state.code_diffs) :
              Lower(state.code_diffs[k].file) # README_MD =>
                  \A change \in KeyChangesAdded(state.code_diffs[k]) :
                      \E i \in 1..Len(JsonListOf(markdown_content, K_KEYCHANGES)) :
                          JsonListOf(markdown_content, K_KEYCHANGES)[i] = change

\* two records that yield the same key change: the list holds it once
C22_Witness ==
    /\ pc = "parse"
    /\ Len(state.code_diffs) = 2
    /\ state.code_diffs[1] = X_B
    /\ state.code_diffs[2] = X_B
    /\ KeyChangesAdded(X_B) # {}
    /\ Len(JsonListOf(markdown_content, K_KEYCHANGES)) = Cardinality(KeyChangesAdded(X_B))

(***************************************************************************)
(* C23: the serialized report can be dumped as JSON                        *)
(***************************************************************************)

\* a value that json.dumps refuses: an instance of a dataclass
IsDataclassInstance(v) == DOMAIN v = {"class", "fields"}

\* C23: everything under the sections of the dictionary returned by
\* to_json_serializable is a map, a list, a string or a number; no
\* parsed_data list holds an object that json.dumps cannot write
C23_JsonSerializable ==
    (pc = "serialized" /\ ~report.raised) =>
        \A h \in DOMAIN serialized.sections :
            "parsed_data" \in DOMAIN serialized.sections[h] =>
                \A k \in DOMAIN serialized.sections[h].parsed_data :
                    ~IsDataclassInstance(serialized.sections[h].parsed_data[k])

(***************************************************************************)
(* C24: the entries of code_diffs in the serialized report                 *)
(***************************************************************************)

\* C24: code_diffs of the serialized report has one entry for each CodeDiff
\* of the report, in order, and the entry carries the file, the description,
\* the diff body, the key changes and the notes of that record
C24_StructuralDump ==
    (pc = "serialized" /\ ~report.raised) =>
        /\ Len(serialized.code_diffs) = Len(report.code_diffs)
        /\ \A k \in 1..Len(report.code_diffs) :
              /\ {"file", "description", "diff_content", "key_changes", "notes"}
                     \subseteq DOMAIN serialized.code_diffs[k]
              /\ serialized.code_diffs[k].file = report.code_diffs[k].file
              /\ serialized.code_diffs[k].description
                     = report.code_diffs[k].description
              /\ serialized.code_diffs[k].diff_content
                     = report.code_diffs[k].diff_content
              /\ serialized.code_diffs[k].key_changes
                     = report.code_diffs[k].key_changes
              /\ serialized.code_diffs[k].notes = report.code_diffs[k].notes

\* a record with a key change and a note has been serialized
C24_RecordWithChanges ==
    /\ pc = "serialized"
    /\ Len(report.code_diffs) = 1
    /\ report.code_diffs[1].key_changes # <<>>
    /\ report.code_diffs[1].notes # <<>>

(***************************************************************************)
(* C25, C26: the sections of a report                                      *)
(***************************************************************************)

\* the lines of a document that are level-2 headings
Level2Lines(lines) == {k \in 1..Len(lines) : StartsWith(lines[k], H2)}

\* the trimmed text of a level-2 heading line
HeadingText(line) == Strip(Drop(line, 3))

\* the text under the heading of line k: the lines up to the next level-1
\* or level-2 heading or the end of the document
OwnSection(lines, k) ==
    LET next == {j \in (k + 1)..Len(lines) :
                    StartsWith(lines[j], H2) \/ StartsWith(lines[j], H1)}
        stop == IF next = {} THEN Len(lines) + 1 ELSE SetMin(next)
    IN  Strip(Join(SubSeq(lines, k + 1, stop - 1), <<NL>>))

\* the content is the text under a heading line of that name
IsOwnSection(lines, header, content) ==
    \E k \in Level2Lines(lines) :
        HeadingText(lines[k]) = header /\ content = OwnSection(lines, k)

\* C25: in the report of parse_report, a section tagged table has the
\* inventory list of the report as parsed_data, a section tagged code_diffs
\* has the diffs list of the report, and the content of every section is
\* the text under its own heading in the input
C25_SectionsAreViews ==
    (pc = "parsed" /\ ~report.raised) =>
        \A h \in DOMAIN report.sections :
            /\ report.sections[h].type = "table"
                   => report.sections[h].parsed_data = report.kafka_inventory
            /\ report.sections[h].type = "code_diffs"
                   => report.sections[h].parsed_data = report.code_diffs
            /\ IsOwnSection(Split(markdown_content, NL), h,
                            report.sections[h].content)

\* C26: the sections map has an entry for each level-2 heading line, keyed
\* by the trimmed heading text, and for no other line; the content of each
\* entry runs from its heading to the next level-1 or level-2 heading or
\* the end of the input
C26_SplitAtLevel2 ==
    (pc = "parsed" /\ ~report.raised) =>
        LET lines == Split(markdown_content, NL) IN
        /\ DOMAIN report.sections
               = {HeadingText(lines[k]) : k \in Level2Lines(lines)}
        /\ \A k \in Level2Lines(lines) :
              \/ \E j \in Level2Lines(lines) :
                    j > k /\ HeadingText(lines[j]) = HeadingText(lines[k])
              \/ report.sections[HeadingText(lines[k])].content
                     = OwnSection(lines, k)

(***************************************************************************)
(* C27: the title of a report                                              *)
(***************************************************************************)

\* the lines of a document that are level-1 headings
Level1Lines(lines) == {k \in 1..Len(lines) : StartsWith(lines[k], H1)}

C27_WitnessFallback ==
    /\ pc = "parsed"
    /\ markdown_content = Join(<<D_Indented, D_File>>, <<NL>>)
    /\ report.title = UNKNOWN_REPORT

(***************************************************************************)
(* C28: where the records of a report come from                            *)
(***************************************************************************)

\* the indices of the lines under the heading of line k, up to the next
\* level-1 or level-2 heading or the end of the document
SectionRange(lines, k) ==
    LET next == {j \in (k + 1)..Len(lines) :
                    StartsWith(lines[j], H2) \/ StartsWith(lines[j], H1)}
    IN  (k + 1)..((IF next = {} THEN Len(lines) + 1 ELSE SetMin(next)) - 1)

\* the line is a table row of the given record
IsRowOf(line, item) ==
    /\ StartsWith(Strip(line), <<PIPE>>)
    /\ Len(Columns(Strip(line))) >= 3
    /\ RecordOfRow(Strip(line)) = item

\* the line opens the block of the given diff record
IsBlockOf(line, diff) ==
    StartsWith(line, H3) /\ Strip(Drop(line, 4)) = diff.file

\* C28: every inventory record of the report is the record of a table row
\* that stands between the inventory heading and the next level-1 or
\* level-2 heading, and every diff record is that of a ### block between
\* the diffs heading and the next level-1 or level-2 heading; an empty
\* section takes no row or block of a later section
C28_RecordsWithinSection ==
    (pc = "parsed" /\ ~report.raised) =>
        LET lines == Split(markdown_content, NL) IN
        /\ \A i \in 1..Len(report.kafka_inventory) :
              \E k \in 1..Len(lines) :
                  /\ StartsWith(lines[k], INVENTORY_HEADING)
                  /\ \E j \in SectionRange(lines, k) :
                        IsRowOf(lines[j], report.kafka_inventory[i])
        /\ \A i \in 1..Len(report.code_diffs) :
              \E k \in 1..Len(lines) :
                  /\ DiffsHeadingEnd(lines[k], 1) # 0
                  /\ \E j \in SectionRange(lines, k) :
                        IsBlockOf(lines[j], report.code_diffs[i])

(***************************************************************************)
(* C29: what the splitter keeps of a response                              *)
(***************************************************************************)

\* the lines of a text that are not blank, each without the white space
\* around it
TextLines(s) ==
    LET kept == SelectSeq(Split(s, NL), LAMBDA l : Strip(l) # <<>>)
    IN  [k \in 1..Len(kept) |-> Strip(kept[k])]

\* a sequence without the elements at the indices of I
Without(seq, I) ==
    [k \in 1..(Len(seq) - Cardinality(I)) |-> seq[Nth((1..Len(seq)) \ I, k)]]

\* C29: the lines of the returned description followed by the lines of the
\* returned diff body are the lines of the response that are not blank, in
\* their order, without the two delimiter lines of one fence at most; text
\* behind the closing delimiter and later fenced blocks are among them
C29_NoTextLost ==
    pc = "split_done" =>
        LET input  == TextLines(raw)
            output == TextLines(split.description) \o TextLines(split.diff_content)
        IN  \/ output = input
            \/ \E i \in 1..Len(input), j \in 1..Len(input) :
                  /\ i < j
                  /\ StartsWith(input[i], FENCE)
                  /\ StartsWith(input[j], FENCE)
                  /\ output = Without(input, {i, j})

(***************************************************************************)
(* The main program of default.py, lines 592-725                           *)
(***************************************************************************)
\* "migration-report-"   line 598
REPORT_PREFIX == <<"m","i","g","r","a","t","i","o","n","-","r","e","p","o","r","t","-">>
\* ".md"   line 598
REPORT_SUFFIX == <<".","m","d">>
\* "*Generated by static analysis*"   line 679
STATIC_NOTE == <<"*","G","e","n","e","r","a","t","e","d"," ","b","y"," ","s","t","a","t","i","c"," ","a","n","a","l","y","s","i","s","*">>
\* "Files in your repository that use Kafka APIs:"   line 684
STATIC_INTRO == <<"F","i","l","e","s"," ","i","n"," ","y","o","u","r"," ","r","e","p","o","s","i","t","o","r","y"," ","t","h","a","t"," ","u","s","e"," ","K","a","f","k","a"," ","A","P","I","s",":">>
\* "No Kafka usage detected in static analysis."   line 691
STATIC_NO_USAGE == <<"N","o"," ","K","a","f","k","a"," ","u","s","a","g","e"," ","d","e","t","e","c","t","e","d"," ","i","n"," ","s","t","a","t","i","c"," ","a","n","a","l","y","s","i","s",".">>
\* "No migration recommendations available from static analysis."   line 708
STATIC_NO_DIFFS == <<"N","o"," ","m","i","g","r","a","t","i","o","n"," ","r","e","c","o","m","m","e","n","d","a","t","i","o","n","s"," ","a","v","a","i","l","a","b","l","e"," ","f","r","o","m"," ","s","t","a","t","i","c"," ","a","n","a","l","y","s","i","s",".">>
\* "Enable AI analysis for detailed migration guidance."   line 709
STATIC_ENABLE_AI == <<"E","n","a","b","l","e"," ","A","I"," ","a","n","a","l","y","s","i","s"," ","f","o","r"," ","d","e","t","a","i","l","e","d"," ","m","i","g","r","a","t","i","o","n"," ","g","u","i","d","a","n","c","e",".">>
\* "Kafka Producer, Kafka Consumer, Confluent.Kafka"   lines 664 and 688
STATIC_APIS == <<"K","a","f","k","a"," ","P","r","o","d","u","c","e","r",","," ","K","a","f","k","a"," ","C","o","n","s","u","m","e","r",","," ","C","o","n","f","l","u","e","n","t",".","K","a","f","k","a">>
\* "Kafka usage detected in static analysis"   line 665
STATIC_SUMMARY == <<"K","a","f","k","a"," ","u","s","a","g","e"," ","d","e","t","e","c","t","e","d"," ","i","n"," ","s","t","a","t","i","c"," ","a","n","a","l","y","s","i","s">>
\* "Static analysis detected Kafka usage - recommended Azure Service Bus
\* migration"   line 670
STATIC_DESCRIPTION == <<"S","t","a","t","i","c"," ","a","n","a","l","y","s","i","s"," ","d","e","t","e","c","t","e","d"," ","K","a","f","k","a"," ","u","s","a","g","e"," ","-"," ","r","e","c","o","m","m","e","n","d","e","d"," ","A","z","u","r","e"," ","S","e","r","v","i","c","e"," ","B","u","s"," ","m","i","g","r","a","t","i","o","n">>
\* the six lines of line 669
STATIC_DIFF ==
    <<"-"," ","/","/"," ","O","r","i","g","i","n","a","l"," ","K","a","f","k","a"," ","i","m","p","l","e","m","e","n","t","a","t","i","o","n",NL,"+"," ","/","/"," ","R","e","c","o","m","m","e","n","d","e","d"," ","A","z","u","r","e"," ","S","e","r","v","i","c","e"," ","B","u","s"," ","m","i","g","r","a","t","i","o","n",":",NL,"+"," ","u","s","i","n","g"," ","A","z","u","r","e",".","M","e","s","s","a","g","i","n","g",".","S","e","r","v","i","c","e","B","u","s",";",NL,"+"," ","/","/"," ","R","e","p","l","a","c","e"," ","K","a","f","k","a"," ","p","r","o","d","u","c","e","r","s"," ","w","i","t","h"," ","S","e","r","v","i","c","e","B","u","s","C","l","i","e","n","t",NL,"+"," ","/","/"," ","R","e","p","l","a","c","e"," ","K","a","f","k","a"," ","c","o","n","s","u","m","e","r","s"," ","w","i","t","h"," ","S","e","r","v","i","c","e","B","u","s","R","e","c","e","i","v","e","r",NL,"+"," ","/","/"," ","U","p","d","a","t","e"," ","c","o","n","f","i","g","u","r","a","t","i","o","n"," ","t","o"," ","u","s","e"," ","S","e","r","v","i","c","e"," ","B","u","s"," ","c","o","n","n","e","c","t","i","o","n"," ","s","t","r","i","n","g","s">>

\* files of the repository that the static scan can meet
\* "p.cs"
F_Source == <<"p",".","c","s">>
\* "q.py"
F_Script == <<"q",".","p","y">>

\* line 598
ReportFilename(analysis_id) == REPORT_PREFIX \o analysis_id \o REPORT_SUFFIX

\* line 612
HasCredentials(args) ==
    /\ args.api_key # ""
    /\ args.base_url # ""
    /\ args.api_key # "test"
    /\ args.base_url # "test"

\* line 657: the extensions that the static scan reads
IsScanned(file) ==
    \E ext \in {<<".","c","s">>, <<".","j","a","v","a">>, <<".","j","s">>,
                <<".","t","s">>, <<".","p","y">>} :
        Len(file) >= Len(ext)
            /\ SubSeq(file, Len(file) - Len(ext) + 1, Len(file)) = ext

\* lines 686-689: the rows of the inventory table
RECURSIVE StaticRows(_)
StaticRows(kafka_files) ==
    IF kafka_files = <<>> THEN <<>>
    ELSE <<PIPE, " ">> \o Head(kafka_files) \o <<" ", PIPE, " ">> \o STATIC_APIS
             \o <<" ", PIPE, " ">> \o STATIC_SUMMARY \o <<" ", PIPE, NL>>
             \o StaticRows(Tail(kafka_files))

\* lines 696-705: the subsections of the diffs section
RECURSIVE StaticDiffs(_)
StaticDiffs(kafka_files) ==
    IF kafka_files = <<>> THEN <<>>
    ELSE H3 \o Head(kafka_files) \o <<NL>>
             \o STATIC_DESCRIPTION \o <<NL, NL>>
             \o FENCE_DIFF_NL \o STATIC_DIFF \o NL_FENCE \o <<NL, NL>>
             \o StaticDiffs(Tail(kafka_files))

\* lines 677-709: the text of the static report for the files in which the
\* scan of lines 650-674 found a keyword
StaticReportText(kafka_files) ==
    REPORT_TITLE \o <<NL, NL>>
        \o STATIC_NOTE \o <<NL, NL>>
        \o INVENTORY_HEADING \o <<NL, NL>>
        \o (IF kafka_files # <<>>
            THEN STATIC_INTRO \o <<NL, NL>> \o TABLE_HEADER \o <<NL>>
                     \o TABLE_RULE \o <<NL>> \o StaticRows(kafka_files)
            ELSE STATIC_NO_USAGE \o <<NL>>)
        \o <<NL>>
        \o DIFFS_SECTION_HEADING \o <<NL, NL>>
        \o (IF kafka_files # <<>>
            THEN StaticDiffs(kafka_files)
            ELSE STATIC_NO_DIFFS \o <<NL>> \o STATIC_ENABLE_AI \o <<NL, NL>>)

\* a line printed with the name of the report, or without a name
Printed(line, name) == [line |-> line, name |-> name]

\* a file written: the directory its path starts from, its name, its text
Written(dir, name, text) == [dir |-> dir, name |-> name, text |-> text]

\* the command line and the environment of a run, and the repository
InitMain ==
    /\ pc = "main"
    /\ \E api_key \in {"", "test", "key"}, base_url \in {"", "test", "url"},
          repo_path_exists \in BOOLEAN, repo_path_is_cwd \in BOOLEAN :
          main = [NoMain EXCEPT !.args =
                     [api_key |-> api_key, base_url |-> base_url,
                      repo_path_exists |-> repo_path_exists,
                      repo_path_is_cwd |-> repo_path_is_cwd]]
    /\ repo_files \in SUBSET {F_Source, F_Script, F_README}
    /\ state = NoState
    /\ rerendered = <<>>
    /\ ParserIdle
    /\ ExtractorIdle
    /\ SplitterIdle
    /\ InstanceIdle

\* lines 594-610
StartMain ==
    /\ pc = "main"
    /\ \E analysis_id \in Clock :
          main' = [main EXCEPT !.report_filename = ReportFilename(analysis_id),
                               !.report_generated = FALSE,
                               !.analysis_type = "Static Analysis",
                               !.stdout = @ \o <<Printed("Starting migration analysis", <<>>)>>]
    /\ pc' = "try_ai"
    /\ UNCHANGED <<extractorVars, splitterVars, parserVars, generatorVars,
                   instanceVars>>

\* lines 561 and 385, 505: the graph calls the node with the state alone, so
\* the report goes to the default path, relative to the working directory
generate_report_node(main_, text) == Written("cwd", REPORT_PATH, text)

\* lines 612-634: app.invoke returns; the last node has written its report
AiAnalysisCompleted ==
    /\ pc = "try_ai"
    /\ HasCredentials(main.args)
    /\ \E kafka_inventory \in Inventories, code_diffs \in {<<>>, <<X_A>>},
          generatedAt \in Clock :
          \E key_changes_list \in Orderings(AllKeyChanges(code_diffs)) :
             LET result == [repo_url |-> REPO_URL, kafka_inventory |-> kafka_inventory,
                            code_diffs |-> code_diffs, messages |-> <<ReportMessage>>]
                 text == ReportText(result, generatedAt, key_changes_list)
             IN  /\ state' = result
                 /\ markdown_content' = text
                 /\ main' = [main EXCEPT
                        !.files = @ \cup {generate_report_node(main, text)},
                        !.stdout = @ \o <<Printed("Attempting AI analysis", <<>>),
                                          Printed("AI Migration analysis completed", <<>>),
                                          Printed("REPORT_GENERATED", main.report_filename),
                                          Printed("Report available", main.report_filename),
                                          Printed("Analysis type", <<>>)>>,
                        !.analysis_type = "AI Analysis",
                        !.report_generated = TRUE,
                        !.exit_status = 0]
    /\ pc' = "exited"
    /\ UNCHANGED <<table_rows, report, serialized, repo_files, rerendered,
                   extractorVars, splitterVars, instanceVars>>

\* lines 612-636: a node of the graph raises before the report is written
AiAnalysisFailed ==
    /\ pc = "try_ai"
    /\ HasCredentials(main.args)
    /\ main' = [main EXCEPT
           !.stdout = @ \o <<Printed("Attempting AI analysis", <<>>),
                             Printed("AI Analysis failed", <<>>),
                             Printed("Falling back to static analysis", <<>>)>>]
    /\ pc' = "fallback"
    /\ UNCHANGED <<extractorVars, splitterVars, parserVars, generatorVars,
                   instanceVars>>

\* lines 612, 637-638
NoCredentials ==
    /\ pc = "try_ai"
    /\ ~HasCredentials(main.args)
    /\ main' = [main EXCEPT
           !.stdout = @ \o <<Printed("No AI credentials provided", <<>>)>>]
    /\ pc' = "fallback"
    /\ UNCHANGED <<extractorVars, splitterVars, parserVars, generatorVars,
                   instanceVars>>

\* lines 641-725 with a repository directory: the scan, the report written
\* at report_path, the final status
StaticFallbackWritten ==
    /\ pc = "fallback"
    /\ ~main.report_generated
    /\ main.args.repo_path_exists
    /\ \E found \in SUBSET {f \in repo_files : IsScanned(f)} :
          \E kafka_files \in Orderings(found) :
             LET text == StaticReportText(kafka_files) IN
             /\ markdown_content' = text
             /\ main' = [main EXCEPT
                    !.files = @ \cup {Written("repo_path", main.report_filename, text)},
                    !.stdout = @ \o <<Printed("Generating static analysis fallback report", <<>>),
                                      Printed("Static analysis report generated", main.report_filename),
                                      Printed("Report available", main.report_filename),
                                      Printed("Analysis type", <<>>)>>,
                    !.analysis_type = "Static Analysis Fallback",
                    !.report_generated = TRUE,
                    !.exit_status = 0]
    /\ pc' = "exited"
    /\ UNCHANGED <<table_rows, report, serialized, extractorVars, splitterVars,
                   generatorVars, instanceVars>>

\* lines 641-725 without the directory: os.walk yields nothing, open raises
\* at line 677, the program ends with status 1
StaticFallbackFailed ==
    /\ pc = "fallback"
    /\ ~main.report_generated
    /\ ~main.args.repo_path_exists
    /\ main' = [main EXCEPT
           !.stdout = @ \o <<Printed("Generating static analysis fallback report", <<>>),
                             Printed("Static analysis fallback failed", <<>>),
                             Printed("Both AI and static analysis failed", <<>>)>>,
           !.exit_status = 1]
    /\ pc' = "exited"
    /\ UNCHANGED <<extractorVars, splitterVars, parserVars, generatorVars,
                   instanceVars>>

NextMain ==
    \/ StartMain
    \/ AiAnalysisCompleted
    \/ AiAnalysisFailed
    \/ NoCredentials
    \/ StaticFallbackWritten
    \/ StaticFallbackFailed

SpecMain == InitMain /\ [][NextMain]_vars

(***************************************************************************)
(* C30: the report that the main program announces                         *)
(***************************************************************************)

\* a file of that name has been written in the repository directory
WrittenAtRepoPath(name) ==
    \E f \in main.files :
        /\ f.name = name
        /\ f.dir = "repo_path" \/ (f.dir = "cwd" /\ main.args.repo_path_is_cwd)

\* C30: when the main program has ended with status 0, every report name it
\* announced (REPORT_GENERATED, Report available) is the name of a file
\* written in the repository directory during the run, on the AI path and
\* on the static path
C30_AnnouncedReportExists ==
    (pc = "exited" /\ main.exit_status = 0) =>
        \A k \in 1..Len(main.stdout) :
            main.stdout[k].line \in {"REPORT_GENERATED", "Report available"}
                => WrittenAtRepoPath(main.stdout[k].name)

\* the static path alone: the report announced has been written
C30_StaticReportExists ==
    (pc = "exited" /\ main.exit_status = 0
        /\ main.analysis_type = "Static Analysis Fallback") =>
        \A k \in 1..Len(main.stdout) :
            main.stdout[k].line \in {"REPORT_GENERATED", "Report available"}
                => WrittenAtRepoPath(main.stdout[k].name)

====
